---- MODULE Spec2Model ----
(***************************************************************************)
(* Model of src/viewer/renderer.cpp: the Renderer's frame pipeline         *)
(* (Init, Resize, UpdateGUI, Paint) and its summed-area-table computation  *)
(* on the host (CPU path) and by compute dispatches (GPU path).            *)
(*                                                                         *)
(* Three specifications share the module:                                   *)
(*   Spec     the frame pipeline: Resize and the stages of Paint, with the *)
(*            command stream each frame issues;                            *)
(*   SpecSAT  the table computation on image data: the CPU two-pass sum    *)
(*            and the GPU scan, both run on the same resolved image.       *)
(*   SpecResize  Resize alone, over every window size up to MaxDim, with   *)
(*            the arguments and allocations of the last three calls.       *)
(*                                                                         *)
(* A pixel is modelled by one channel: every glm::uvec4 / u8vec4 operation *)
(* of the source is component-wise, so the four channels evolve            *)
(* independently and identically.                                          *)
(***************************************************************************)
EXTENDS Integers, Sequences, FiniteSets, TLC

VARIABLES
    \* ---- frame pipeline (Spec) ----
    pc,                       \* position of the control thread
    paints,                   \* number of Paint calls started, saturating at 2
    mFirstFrame,
    mEnableDoF, mUseCPUForSAT, mFocusDepth,
    mSceneSP, mSummedAreaTableUpsweepSP, mSummedAreaTableDownsweepSP,
    mTransposeSummedAreaTableSP, mDepthOfFieldSP,
    mWindowWidth, mWindowHeight,
    mBackbufferWidth, mBackbufferHeight,
    mSummedAreaTableWidth, mSummedAreaTableHeight,
    mSummedAreaTableTO,       \* which texture the alias designates
    bufs,                     \* dimensions of every allocated buffer
    resizeLog,                \* GL / heap calls of the most recent Resize
    gpuStamped, cpuStamped,   \* timestamps recorded by the most recent Paint
    cmds,                     \* commands issued by the Paint in progress
    stages,                   \* stages entered by the Paint in progress
    profilingOpen,            \* what ImGui::Begin("Renderer Profiling") returned
    gpuRead, cpuRead,         \* timestamp pairs UpdateGUI read in this Paint
    gpuStale, cpuStale,       \* ... of which not recorded by the previous Paint
    \* ---- table computation (SpecSAT) ----
    spc,                      \* <<path, steps done>> inside the SAT block of Paint
    ran,                      \* the SAT paths completed so far, in order
    junk,                     \* content of never-written storage
    tex,                      \* texel contents of the textures, row-major
    mCPUBackbufferReadback,   \* contents of the host readback array
    mCPUSummedAreaTable,      \* contents of the host table array
    \* ---- history of Resize (SpecResize) ----
    resizeHistory             \* the last three Resize calls that returned

pipeVars == <<pc, paints, mFirstFrame, mEnableDoF, mUseCPUForSAT, mFocusDepth,
              mSceneSP, mSummedAreaTableUpsweepSP, mSummedAreaTableDownsweepSP,
              mTransposeSummedAreaTableSP, mDepthOfFieldSP,
              mWindowWidth, mWindowHeight, mBackbufferWidth, mBackbufferHeight,
              mSummedAreaTableWidth, mSummedAreaTableHeight, mSummedAreaTableTO,
              bufs, resizeLog, gpuStamped, cpuStamped, cmds, stages,
              profilingOpen, gpuRead, cpuRead, gpuStale, cpuStale>>

satVars == <<spc, ran, junk, tex, mCPUBackbufferReadback, mCPUSummedAreaTable>>

vars == <<pipeVars, satVars, resizeHistory>>

----------------------------------------------------------------------------
(* Program constants and model bounds *)

\* preamble.glsl: the scan workgroup (tile) width; a power of two.
SAT_WORKGROUP_SIZE_X == 2

\* preamble.glsl: the transpose workgroup edge.
TRANSPOSE_SAT_WORKGROUP_SIZE_X == 2

TILE == SAT_WORKGROUP_SIZE_X

\* Largest window dimension Resize is called with in SpecResize.
MaxDim == 5

\* Window dimensions Resize is called with between the frames of Spec: a
\* minimised window, one tile, two tiles, and one beyond the single-tier limit.
PaintDims == {0, 1, 3, 5}

\* Largest number of non-zero pixels in a source image of SpecSAT.
MaxLit == 2

\* Values the focus-depth slider is moved to (range [0,10], initially 5).
FocusDepths == {5, 10}

\* Encoded 8-bit value of a lit pixel (decodes to 55).
LitValues == {128}

\* Values found in storage that was allocated but never written.
JunkValues == {0, 9}

----------------------------------------------------------------------------
(* Integer helpers *)

\* Bitwise AND of two non-negative ints.
RECURSIVE BitAnd(_, _)
BitAnd(a, b) ==
    IF a = 0 \/ b = 0 THEN 0
    ELSE (a % 2) * (b % 2) + 2 * BitAnd(a \div 2, b \div 2)

\* x & -t for a non-negative int x: the low 31 bits of the two's-complement
\* -t are 2^31 - t; x has no sign bit set.
AndNeg(x, t) == BitAnd(x, (2147483647 - t) + 1)

----------------------------------------------------------------------------
(* Timestamps *)

\* GPUTimestamps::Names, index i of the loop in UpdateGUI is position i+1.
GPUTimestampNames == <<"RenderScene", "MultisampleResolve", "ReadbackBackbuffer",
                       "ComputeSAT", "SATUpload", "DOFBlur", "RenderGUI",
                       "BlitToWindow">>

\* CPUTimestamps::Names.
CPUTimestampNames == <<"ReadbackBackbuffer", "ComputeSAT", "SATUpload">>

SATPairNames == {"ReadbackBackbuffer", "ComputeSAT", "SATUpload"}

----------------------------------------------------------------------------
(* The command stream of a frame *)

NoCmd == [op |-> "", name |-> "", prog |-> "", pass |-> -1, step |-> -1,
          rd |-> "", wr |-> "", gx |-> -1, gy |-> -1, bits |-> {},
          uniforms |-> <<>>]

\* glQueryCounter(mGPUTimestampQueries[GPUTimestamps::<name><edge>], GL_TIMESTAMP)
GPUStamp(name, edge) == [NoCmd EXCEPT !.op = "glQueryCounter", !.name = name, !.prog = edge]

\* QueryPerformanceCounter(&mCPUTimestampQueryResults[CPUTimestamps::<name><edge>])
CPUStamp(name, edge) == [NoCmd EXCEPT !.op = "QueryPerformanceCounter", !.name = name, !.prog = edge]

\* glMemoryBarrier(bits)
Barrier(bits) == [NoCmd EXCEPT !.op = "glMemoryBarrier", !.bits = bits]

\* glDispatchCompute(gx, gy, 1) with the program, bindings and uniforms set before it
Dispatch(prog, pass, step, rd, wr, gx, gy, uniforms) ==
    [NoCmd EXCEPT !.op = "glDispatchCompute", !.prog = prog, !.pass = pass,
                  !.step = step, !.rd = rd, !.wr = wr, !.gx = gx, !.gy = gy,
                  !.uniforms = uniforms]

\* a draw call with the given program into the given framebuffer
Draw(prog, rd, wr) == [NoCmd EXCEPT !.op = "glDraw", !.prog = prog, !.rd = rd, !.wr = wr]

\* glBlitFramebuffer(0,0,sw,sh, 0,0,dw,dh, mask, filter)
Blit(rd, wr, filter) == [NoCmd EXCEPT !.op = "glBlitFramebuffer", !.rd = rd, !.wr = wr, !.name = filter]

\* any other host-side operation of Paint
HostOp(op, rd, wr) == [NoCmd EXCEPT !.op = op, !.rd = rd, !.wr = wr]

\* The timestamps of one clock domain recorded in a command sequence.
Recorded(seq, op) == {<<seq[i].name, seq[i].prog>> : i \in {j \in DOMAIN seq : seq[j].op = op}}

PairRecorded(stamped, name) ==
    /\ <<name, "Start">> \in stamped
    /\ <<name, "End">> \in stamped

----------------------------------------------------------------------------
(* Renderer::Init and the state after construction *)

\* Names of the buffers Resize allocates.
RenderTargets == {"mBackbufferColorTOMS", "mBackbufferDepthTOMS", "mBackbufferFBOMS",
                  "mBackbufferColorTOSS", "mBackbufferDepthTOSS", "mBackbufferFBOSS"}

SATBuffers == {"mCPUBackbufferReadback", "mCPUSummedAreaTable", "mSummedRowsTO",
               "mSummedRowsWGSumsTO", "mSummedColsTO", "mSummedColsWGSumsTO"}

\* operator new zero-fills the object; Init sets the first-frame flag, the
\* DoF toggle and the focus depth; the programs are not compiled yet.
InitPipe ==
    /\ pc = "Idle"
    /\ paints = 0
    /\ mFirstFrame = TRUE
    /\ mEnableDoF = TRUE
    /\ mUseCPUForSAT = FALSE
    /\ mFocusDepth = 5
    /\ mSceneSP = FALSE
    /\ mSummedAreaTableUpsweepSP = FALSE
    /\ mSummedAreaTableDownsweepSP = FALSE
    /\ mTransposeSummedAreaTableSP = FALSE
    /\ mDepthOfFieldSP = FALSE
    /\ mWindowWidth = 0 /\ mWindowHeight = 0
    /\ mBackbufferWidth = 0 /\ mBackbufferHeight = 0
    /\ mSummedAreaTableWidth = 0 /\ mSummedAreaTableHeight = 0
    /\ mSummedAreaTableTO = "NULL"
    /\ bufs = [b \in RenderTargets \cup SATBuffers |-> <<0, 0>>]
    /\ resizeLog = <<>>
    /\ gpuStamped = {} /\ cpuStamped = {}
    /\ cmds = <<>>
    /\ stages = <<>>
    /\ profilingOpen = FALSE
    /\ gpuRead = {} /\ cpuRead = {}
    /\ gpuStale = {} /\ cpuStale = {}

----------------------------------------------------------------------------
(* Renderer::Resize *)

\* (mutant) rounds down: the "+ SAT_WORKGROUP_SIZE_X - 1" is missing
PaddedDimDown(dim) == AndNeg(dim, SAT_WORKGROUP_SIZE_X)

\* (dim + SAT_WORKGROUP_SIZE_X - 1) & -SAT_WORKGROUP_SIZE_X
PaddedDim(dim) == AndNeg(dim + SAT_WORKGROUP_SIZE_X - 1, SAT_WORKGROUP_SIZE_X)

\* (mutant) only the width is asserted
SingleTierAssertWidthOnly(tw, th) ==
    tw \div SAT_WORKGROUP_SIZE_X <= SAT_WORKGROUP_SIZE_X

\* the two assert()s: the workgroup sums fit in a single workgroup
SingleTierAssert(tw, th) ==
    /\ tw \div SAT_WORKGROUP_SIZE_X <= SAT_WORKGROUP_SIZE_X
    /\ th \div SAT_WORKGROUP_SIZE_X <= SAT_WORKGROUP_SIZE_X

\* (mutant) the replacement is created first and the old buffer released
\* afterwards
ReallocAllocFirst(b) == << [op |-> "alloc", buf |-> b], [op |-> "delete", buf |-> b] >>

\* a buffer is released (glDelete*, delete[]), then its replacement is
\* created (glGen* and storage, new[])
Realloc(b) == << [op |-> "delete", buf |-> b], [op |-> "alloc", buf |-> b] >>

\* glFinish, then both framebuffers with their color and depth textures
ResizeRenderTargetCalls ==
    << [op |-> "glFinish", buf |-> ""] >>
    \o Realloc("mBackbufferColorTOMS") \o Realloc("mBackbufferDepthTOMS")
    \o Realloc("mBackbufferFBOMS")
    \o Realloc("mBackbufferColorTOSS") \o Realloc("mBackbufferDepthTOSS")
    \o Realloc("mBackbufferFBOSS")

\* the buffers of the "Init summed area table" block, in source order
ResizeSATCalls ==
    Realloc("mCPUBackbufferReadback") \o Realloc("mCPUSummedAreaTable")
    \o Realloc("mSummedRowsTO") \o Realloc("mSummedRowsWGSumsTO")
    \o Realloc("mSummedColsTO") \o Realloc("mSummedColsWGSumsTO")

\* dimensions given to each allocation
RenderTargetDims(w, h) == [b \in RenderTargets |-> <<w, h>>]

\* (mutant) the column buffers are sized like the row buffers
SATBufferDimsColsLikeRows(w, h, tw, th) ==
    [b \in SATBuffers |->
        CASE b = "mCPUBackbufferReadback" -> <<w * h, 1>>
          [] b = "mCPUSummedAreaTable"    -> <<tw * th, 1>>
          [] b = "mSummedRowsTO"          -> <<tw, th>>
          [] b = "mSummedRowsWGSumsTO"    -> <<tw \div SAT_WORKGROUP_SIZE_X, th>>
          [] b = "mSummedColsTO"          -> <<tw, th>>
          [] b = "mSummedColsWGSumsTO"    -> <<tw \div SAT_WORKGROUP_SIZE_X, th>>]

\* (mutant) a buffer is reallocated only when it has to grow
SATBufferDimsKeepLarger(w, h, tw, th) ==
    [b \in SATBuffers |->
        LET new == CASE b = "mCPUBackbufferReadback" -> <<w * h, 1>>
                     [] b = "mCPUSummedAreaTable"    -> <<tw * th, 1>>
                     [] b = "mSummedRowsTO"          -> <<tw, th>>
                     [] b = "mSummedRowsWGSumsTO"    -> <<tw \div SAT_WORKGROUP_SIZE_X, th>>
                     [] b = "mSummedColsTO"          -> <<th, tw>>
                     [] b = "mSummedColsWGSumsTO"    -> <<th \div SAT_WORKGROUP_SIZE_X, tw>>
        IN  IF bufs[b][1] >= new[1] /\ bufs[b][2] >= new[2] THEN bufs[b] ELSE new]

SATBufferDims(w, h, tw, th) ==
    [b \in SATBuffers |->
        CASE b = "mCPUBackbufferReadback" -> <<w * h, 1>>
          [] b = "mCPUSummedAreaTable"    -> <<tw * th, 1>>
          [] b = "mSummedRowsTO"          -> <<tw, th>>
          [] b = "mSummedRowsWGSumsTO"    -> <<tw \div SAT_WORKGROUP_SIZE_X, th>>
          [] b = "mSummedColsTO"          -> <<th, tw>>
          [] b = "mSummedColsWGSumsTO"    -> <<th \div SAT_WORKGROUP_SIZE_X, tw>>]

\* (mutant) the scene is rendered at half the window resolution
ResizeHalfResolution(width, height) ==
    /\ pc = "Idle"
    /\ mWindowWidth' = width
    /\ mWindowHeight' = height
    /\ mBackbufferWidth' = width \div 2
    /\ mBackbufferHeight' = height \div 2
    /\ mSummedAreaTableWidth' = PaddedDim(width \div 2)
    /\ mSummedAreaTableHeight' = PaddedDim(height \div 2)
    /\ IF SingleTierAssert(PaddedDim(width \div 2), PaddedDim(height \div 2))
       THEN /\ bufs' = [b \in RenderTargets \cup SATBuffers |->
                          IF b \in RenderTargets
                          THEN RenderTargetDims(width \div 2, height \div 2)[b]
                          ELSE SATBufferDims(width \div 2, height \div 2,
                                   PaddedDim(width \div 2), PaddedDim(height \div 2))[b]]
            /\ resizeLog' = ResizeRenderTargetCalls \o ResizeSATCalls
            /\ mSummedAreaTableTO' = "mSummedRowsTO"
            /\ pc' = "Idle"
       ELSE \* assert() fails: the process is aborted inside Resize
            /\ bufs' = [b \in RenderTargets \cup SATBuffers |->
                          IF b \in RenderTargets
                          THEN RenderTargetDims(width \div 2, height \div 2)[b]
                          ELSE bufs[b]]
            /\ resizeLog' = ResizeRenderTargetCalls \o << [op |-> "abort", buf |-> ""] >>
            /\ mSummedAreaTableTO' = mSummedAreaTableTO
            /\ pc' = "Aborted"
    /\ UNCHANGED <<paints, mFirstFrame, mEnableDoF, mUseCPUForSAT, mFocusDepth,
                   mSceneSP, mSummedAreaTableUpsweepSP, mSummedAreaTableDownsweepSP,
                   mTransposeSummedAreaTableSP, mDepthOfFieldSP,
                   gpuStamped, cpuStamped, cmds, stages,
                   profilingOpen, gpuRead, cpuRead, gpuStale, cpuStale>>
    /\ UNCHANGED satVars

Resize(width, height) ==
    /\ pc = "Idle"
    /\ mWindowWidth' = width
    /\ mWindowHeight' = height
    /\ mBackbufferWidth' = width
    /\ mBackbufferHeight' = height
    /\ mSummedAreaTableWidth' = PaddedDim(width)
    /\ mSummedAreaTableHeight' = PaddedDim(height)
    /\ IF SingleTierAssert(PaddedDim(width), PaddedDim(height))
       THEN /\ bufs' = [b \in RenderTargets \cup SATBuffers |->
                          IF b \in RenderTargets
                          THEN RenderTargetDims(width, height)[b]
                          ELSE SATBufferDims(width, height,
                                   PaddedDim(width), PaddedDim(height))[b]]
            /\ resizeLog' = ResizeRenderTargetCalls \o ResizeSATCalls
            /\ mSummedAreaTableTO' = "mSummedRowsTO"
            /\ pc' = "Idle"
       ELSE \* assert() fails: the process is aborted inside Resize
            /\ bufs' = [b \in RenderTargets \cup SATBuffers |->
                          IF b \in RenderTargets
                          THEN RenderTargetDims(width, height)[b]
                          ELSE bufs[b]]
            /\ resizeLog' = ResizeRenderTargetCalls \o << [op |-> "abort", buf |-> ""] >>
            /\ mSummedAreaTableTO' = mSummedAreaTableTO
            /\ pc' = "Aborted"
    /\ UNCHANGED <<paints, mFirstFrame, mEnableDoF, mUseCPUForSAT, mFocusDepth,
                   mSceneSP, mSummedAreaTableUpsweepSP, mSummedAreaTableDownsweepSP,
                   mTransposeSummedAreaTableSP, mDepthOfFieldSP,
                   gpuStamped, cpuStamped, cmds, stages,
                   profilingOpen, gpuRead, cpuRead, gpuStale, cpuStale>>
    /\ UNCHANGED satVars

----------------------------------------------------------------------------
(* Renderer::UpdateGUI *)

\* (mutant) the "&& !mFirstFrame" of the condition is missing
GPUPairsReadAnyFrame(open, firstFrame, useCPU) ==
    IF open
    THEN {GPUTimestampNames[i] : i \in
            {j \in 1..Len(GPUTimestampNames) :
                IF ~useCPU
                THEN GPUTimestampNames[j] \notin {"ReadbackBackbuffer", "SATUpload"}
                ELSE GPUTimestampNames[j] # "ComputeSAT"}}
    ELSE {}

\* The pairs the "GPU time" loop reads: none unless the profiling window is
\* open and this is not the first frame; the loop skips by mUseCPUForSAT only.
GPUPairsRead(open, firstFrame, useCPU) ==
    IF open /\ ~firstFrame
    THEN {GPUTimestampNames[i] : i \in
            {j \in 1..Len(GPUTimestampNames) :
                IF ~useCPU
                THEN GPUTimestampNames[j] \notin {"ReadbackBackbuffer", "SATUpload"}
                ELSE GPUTimestampNames[j] # "ComputeSAT"}}
    ELSE {}

\* The pairs the "CPU time" loop reads.
CPUPairsRead(open, firstFrame, useCPU) ==
    IF open /\ ~firstFrame
    THEN {CPUTimestampNames[i] : i \in
            {j \in 1..Len(CPUTimestampNames) : useCPU}}
    ELSE {}

\* (mutant) the timestamp loops run after the "Renderer" window's widgets
UpdateGUIReadsAfterWidgets ==
    /\ pc = "Idle"
    /\ mSummedAreaTableTO # "NULL"
    /\ \E open \in BOOLEAN, openCfg \in BOOLEAN, dof \in BOOLEAN, cpu \in BOOLEAN,
          fd \in FocusDepths :
         /\ profilingOpen' = open
         /\ gpuRead' = GPUPairsRead(open, mFirstFrame, cpu)
         /\ cpuRead' = CPUPairsRead(open, mFirstFrame, cpu)
         /\ gpuStale' = {n \in gpuRead' : ~PairRecorded(gpuStamped, n)}
         /\ cpuStale' = {n \in cpuRead' : ~PairRecorded(cpuStamped, n)}
         /\ openCfg \/ (dof = mEnableDoF /\ cpu = mUseCPUForSAT /\ fd = mFocusDepth)
         /\ mEnableDoF' = dof
         /\ mUseCPUForSAT' = cpu
         /\ mFocusDepth' = fd
    /\ paints' = IF paints < 2 THEN paints + 1 ELSE paints
    /\ gpuStamped' = {} /\ cpuStamped' = {}
    /\ cmds' = <<>>
    /\ stages' = <<>>
    /\ pc' = "UpdateGUI"
    /\ UNCHANGED <<mFirstFrame, mSceneSP, mSummedAreaTableUpsweepSP,
                   mSummedAreaTableDownsweepSP, mTransposeSummedAreaTableSP,
                   mDepthOfFieldSP, mWindowWidth, mWindowHeight, mBackbufferWidth,
                   mBackbufferHeight, mSummedAreaTableWidth, mSummedAreaTableHeight,
                   mSummedAreaTableTO, bufs, resizeLog>>
    /\ UNCHANGED satVars

\* UpdateGUI, the first call of Paint. open / openCfg: what the two
\* ImGui::Begin calls return; dof, cpu, fd: the widgets' values after the
\* user's input. The viewer sizes the renderer before it paints.
UpdateGUI ==
    /\ pc = "Idle"
    /\ mSummedAreaTableTO # "NULL"
    /\ \E open \in BOOLEAN, openCfg \in BOOLEAN, dof \in BOOLEAN, cpu \in BOOLEAN,
          fd \in FocusDepths :
         /\ profilingOpen' = open
         /\ gpuRead' = GPUPairsRead(open, mFirstFrame, mUseCPUForSAT)
         /\ cpuRead' = CPUPairsRead(open, mFirstFrame, mUseCPUForSAT)
         /\ gpuStale' = {n \in gpuRead' : ~PairRecorded(gpuStamped, n)}
         /\ cpuStale' = {n \in cpuRead' : ~PairRecorded(cpuStamped, n)}
         \* a collapsed "Renderer" window leaves the three widgets untouched
         /\ openCfg \/ (dof = mEnableDoF /\ cpu = mUseCPUForSAT /\ fd = mFocusDepth)
         /\ mEnableDoF' = dof
         /\ mUseCPUForSAT' = cpu
         /\ mFocusDepth' = fd
    /\ paints' = IF paints < 2 THEN paints + 1 ELSE paints
    /\ gpuStamped' = {} /\ cpuStamped' = {}
    /\ cmds' = <<>>
    /\ stages' = <<>>
    /\ pc' = "UpdateGUI"
    /\ UNCHANGED <<mFirstFrame, mSceneSP, mSummedAreaTableUpsweepSP,
                   mSummedAreaTableDownsweepSP, mTransposeSummedAreaTableSP,
                   mDepthOfFieldSP, mWindowWidth, mWindowHeight, mBackbufferWidth,
                   mBackbufferHeight, mSummedAreaTableWidth, mSummedAreaTableHeight,
                   mSummedAreaTableTO, bufs, resizeLog>>
    /\ UNCHANGED satVars

\* mShaders.UpdatePrograms(): "Reload any programs"; every program handle
\* is zero or non-zero afterwards, independently of the others.
UpdatePrograms ==
    /\ pc = "UpdateGUI"
    /\ \E sp \in [1..5 -> BOOLEAN] :
         /\ mSceneSP' = sp[1]
         /\ mSummedAreaTableUpsweepSP' = sp[2]
         /\ mSummedAreaTableDownsweepSP' = sp[3]
         /\ mTransposeSummedAreaTableSP' = sp[4]
         /\ mDepthOfFieldSP' = sp[5]
    /\ pc' = "UpdatePrograms"
    /\ UNCHANGED <<paints, mFirstFrame, mEnableDoF, mUseCPUForSAT, mFocusDepth,
                   mWindowWidth, mWindowHeight, mBackbufferWidth, mBackbufferHeight,
                   mSummedAreaTableWidth, mSummedAreaTableHeight, mSummedAreaTableTO,
                   bufs, resizeLog, gpuStamped, cpuStamped, cmds, stages,
                   profilingOpen, gpuRead, cpuRead, gpuStale, cpuStale>>
    /\ UNCHANGED satVars

----------------------------------------------------------------------------
(* Renderer::Paint, stage by stage *)

ImageAndFetch == {"GL_SHADER_IMAGE_ACCESS_BARRIER_BIT", "GL_TEXTURE_FETCH_BARRIER_BIT"}
ImageOnly == {"GL_SHADER_IMAGE_ACCESS_BARRIER_BIT"}
FetchOnly == {"GL_TEXTURE_FETCH_BARRIER_BIT"}

\* uniforms of the up-sweep program: <<READ_UINT_INPUT, READ_WGSUM>>;
\* of the down-sweep program: <<ADD_WGSUM>>

\* (mutant) the group count of the other axis is used for each pass
ScanGroupsSwapped(pass, tw, th) ==
    IF pass = 0 THEN th \div SAT_WORKGROUP_SIZE_X ELSE tw \div SAT_WORKGROUP_SIZE_X

\* workgroups per line of the up-sweep and down-sweep dispatches:
\* mSummedAreaTableWidth / SAT_WORKGROUP_SIZE_X for the rows pass,
\* mSummedAreaTableHeight / SAT_WORKGROUP_SIZE_X for the columns pass
ScanGroups(pass, tw, th) ==
    IF pass = 0 THEN tw \div SAT_WORKGROUP_SIZE_X ELSE th \div SAT_WORKGROUP_SIZE_X

\* One iteration of "for (pass ...)": pass 0 = SATPass_Rows, 1 = SATPass_Cols.
\* bw, bh: backbuffer size; tw, th: table size; alias: *mSummedAreaTableTO.
SATPassCalls(pass, bw, bh, tw, th, alias) ==
    LET rows   == pass = 0
        table  == IF rows THEN "mSummedRowsTO" ELSE "mSummedColsTO"
        wgsums == IF rows THEN "mSummedRowsWGSumsTO" ELSE "mSummedColsWGSumsTO"
        tiles  == ScanGroups(pass, tw, th)
        lines  == IF rows THEN bh ELSE bw
    IN  <<
        \* Up-sweep
        Barrier(ImageAndFetch),
        Dispatch("mSummedAreaTableUpsweepSP", pass, 1,
                 IF rows THEN "mBackbufferColorTOSS" ELSE "mSummedColsTO",
                 table, tiles, lines, <<IF rows THEN 0 ELSE 1, 0>>),
        \* Up-sweep WG sums
        Barrier(ImageAndFetch),
        Dispatch("mSummedAreaTableUpsweepSP", pass, 2, table, wgsums,
                 1, lines, <<0, 1>>),
        \* Down-sweep WG sums
        Barrier(ImageOnly),
        Dispatch("mSummedAreaTableDownsweepSP", pass, 3, wgsums, wgsums,
                 1, lines, <<0>>),
        \* Down-sweep
        Barrier(ImageOnly),
        Dispatch("mSummedAreaTableDownsweepSP", pass, 4, wgsums, table,
                 tiles, lines, <<1>>),
        \* Transpose
        Barrier(ImageOnly),
        Dispatch("mTransposeSummedAreaTableSP", pass, 5,
                 table, IF rows THEN "mSummedColsTO" ELSE alias,
                 IF rows THEN tw \div TRANSPOSE_SAT_WORKGROUP_SIZE_X
                         ELSE th \div TRANSPOSE_SAT_WORKGROUP_SIZE_X,
                 IF rows THEN th \div TRANSPOSE_SAT_WORKGROUP_SIZE_X
                         ELSE tw \div TRANSPOSE_SAT_WORKGROUP_SIZE_X,
                 <<>>)
        >>

\* the "Dumb CPU SAT" branch
CPUSATCalls(alias) ==
    << CPUStamp("ReadbackBackbuffer", "Start"),
       GPUStamp("ReadbackBackbuffer", "Start"),
       HostOp("glReadPixels", "mBackbufferFBOSS", "mCPUBackbufferReadback"),
       GPUStamp("ReadbackBackbuffer", "End"),
       CPUStamp("ReadbackBackbuffer", "End"),
       CPUStamp("ComputeSAT", "Start"),
       HostOp("sum the rows", "mCPUBackbufferReadback", "mCPUSummedAreaTable"),
       HostOp("sum the columns", "mCPUSummedAreaTable", "mCPUSummedAreaTable"),
       CPUStamp("ComputeSAT", "End"),
       CPUStamp("SATUpload", "Start"),
       GPUStamp("SATUpload", "Start"),
       HostOp("glTexSubImage2D", "mCPUSummedAreaTable", alias),
       GPUStamp("SATUpload", "End"),
       CPUStamp("SATUpload", "End") >>

\* (mutant) the loop runs the columns pass before the rows pass
GPUSATCallsColsFirst(up, down, transpose, bw, bh, tw, th, alias) ==
    << GPUStamp("ComputeSAT", "Start") >>
    \o (IF up /\ down /\ transpose
        THEN SATPassCalls(1, bw, bh, tw, th, alias) \o SATPassCalls(0, bw, bh, tw, th, alias)
        ELSE <<>>)
    \o << GPUStamp("ComputeSAT", "End") >>

\* (mutant) the transpose program is not part of the validity check
GPUSATCallsNoTransposeCheck(up, down, transpose, bw, bh, tw, th, alias) ==
    << GPUStamp("ComputeSAT", "Start") >>
    \o (IF up /\ down
        THEN SATPassCalls(0, bw, bh, tw, th, alias) \o SATPassCalls(1, bw, bh, tw, th, alias)
        ELSE <<>>)
    \o << GPUStamp("ComputeSAT", "End") >>

\* the "GPU SAT" branch
GPUSATCalls(up, down, transpose, bw, bh, tw, th, alias) ==
    << GPUStamp("ComputeSAT", "Start") >>
    \o (IF up /\ down /\ transpose
        THEN SATPassCalls(0, bw, bh, tw, th, alias) \o SATPassCalls(1, bw, bh, tw, th, alias)
        ELSE <<>>)
    \o << GPUStamp("ComputeSAT", "End") >>

\* The indices of mCPUBackbufferReadback the "sum the rows" loops read for a
\* w x h backbuffer: element 0 of every row, then elements 1 .. w-1.
CPUReadbackIndices(w, h) ==
    {row * w + 0 : row \in 0..(h - 1)}
    \cup {row * w + col : row \in 0..(h - 1), col \in 1..(w - 1)}

\* The indices of mCPUSummedAreaTable the two summations read or write for a
\* w x h backbuffer and a table of row stride tw.
CPUTableIndices(w, h, tw) ==
    {row * tw + 0 : row \in 0..(h - 1)}
    \cup UNION {{row * tw + col, row * tw + (col - 1)} :
                   row \in 0..(h - 1), col \in 1..(w - 1)}
    \cup UNION {{row * tw + col, (row - 1) * tw + col} :
                   col \in 0..(w - 1), row \in 1..(h - 1)}

\* "Render scene"
SceneCalls(sceneSP) ==
    << GPUStamp("RenderScene", "Start") >>
    \o (IF sceneSP THEN << Draw("mSceneSP", "mScene", "mBackbufferFBOMS") >> ELSE <<>>)
    \o << GPUStamp("RenderScene", "End") >>

\* How a command reads its input: glBindTextures binds it for texture
\* fetches (up-sweep steps 1 and 2, the DoF draw), glBindImageTexture for
\* image loads (down-sweep steps 3 and 4, the transpose).
ReadsAs(c) ==
    CASE c.op = "glDraw" -> "GL_TEXTURE_FETCH_BARRIER_BIT"
      [] c.op = "glDispatchCompute" /\ c.step \in {1, 2} -> "GL_TEXTURE_FETCH_BARRIER_BIT"
      [] c.op = "glDispatchCompute" /\ c.step \in {3, 4, 5} ->
            "GL_SHADER_IMAGE_ACCESS_BARRIER_BIT"

\* (mutant) the barrier in front of the DoF draw covers image access only
DoFCallsImageBarrier(dofSP, alias) ==
    << GPUStamp("DOFBlur", "Start") >>
    \o (IF dofSP
        THEN << Barrier(ImageOnly), Draw("mDepthOfFieldSP", alias, "mBackbufferFBOSS") >>
        ELSE <<>>)
    \o << GPUStamp("DOFBlur", "End") >>

\* (mutant) the glMemoryBarrier in front of the DoF draw is missing
DoFCallsNoBarrier(dofSP, alias) ==
    << GPUStamp("DOFBlur", "Start") >>
    \o (IF dofSP
        THEN << Draw("mDepthOfFieldSP", alias, "mBackbufferFBOSS") >>
        ELSE <<>>)
    \o << GPUStamp("DOFBlur", "End") >>

\* "Apply DoF-blur to scene"
DoFCalls(dofSP, alias) ==
    << GPUStamp("DOFBlur", "Start") >>
    \o (IF dofSP
        THEN << Barrier(FetchOnly), Draw("mDepthOfFieldSP", alias, "mBackbufferFBOSS") >>
        ELSE <<>>)
    \o << GPUStamp("DOFBlur", "End") >>

\* the calls of a stage are appended to the command stream; its
\* glQueryCounter / QueryPerformanceCounter calls record their timestamps
Issue(calls) ==
    /\ cmds' = cmds \o calls
    /\ gpuStamped' = gpuStamped \cup Recorded(calls, "glQueryCounter")
    /\ cpuStamped' = cpuStamped \cup Recorded(calls, "QueryPerformanceCounter")

ScenePass ==
    /\ pc = "UpdatePrograms"
    /\ Issue(SceneCalls(mSceneSP))
    /\ stages' = Append(stages, "ScenePass")
    /\ pc' = "ScenePass"
    /\ UNCHANGED <<paints, mFirstFrame, mEnableDoF, mUseCPUForSAT, mFocusDepth,
                   mSceneSP, mSummedAreaTableUpsweepSP, mSummedAreaTableDownsweepSP,
                   mTransposeSummedAreaTableSP, mDepthOfFieldSP,
                   mWindowWidth, mWindowHeight, mBackbufferWidth, mBackbufferHeight,
                   mSummedAreaTableWidth, mSummedAreaTableHeight, mSummedAreaTableTO,
                   bufs, resizeLog, profilingOpen, gpuRead, cpuRead, gpuStale, cpuStale>>
    /\ UNCHANGED satVars

\* "resolve multisampled backbuffer to singlesampled backbuffer"
ResolvePass ==
    /\ pc = "ScenePass"
    /\ Issue(<< GPUStamp("MultisampleResolve", "Start"),
                Blit("mBackbufferFBOMS", "mBackbufferFBOSS", "GL_NEAREST"),
                GPUStamp("MultisampleResolve", "End") >>)
    /\ stages' = Append(stages, "ResolvePass")
    /\ pc' = "ResolvePass"
    /\ UNCHANGED <<paints, mFirstFrame, mEnableDoF, mUseCPUForSAT, mFocusDepth,
                   mSceneSP, mSummedAreaTableUpsweepSP, mSummedAreaTableDownsweepSP,
                   mTransposeSummedAreaTableSP, mDepthOfFieldSP,
                   mWindowWidth, mWindowHeight, mBackbufferWidth, mBackbufferHeight,
                   mSummedAreaTableWidth, mSummedAreaTableHeight, mSummedAreaTableTO,
                   bufs, resizeLog, profilingOpen, gpuRead, cpuRead, gpuStale, cpuStale>>
    /\ UNCHANGED satVars

\* (mutant) the CPU branch uploads into the column table and points the
\* alias at it
SATPassRetargetsAlias ==
    /\ pc = "ResolvePass"
    /\ mEnableDoF
    /\ Issue(IF mUseCPUForSAT
             THEN CPUSATCalls("mSummedColsTO")
             ELSE GPUSATCalls(mSummedAreaTableUpsweepSP, mSummedAreaTableDownsweepSP,
                              mTransposeSummedAreaTableSP,
                              mBackbufferWidth, mBackbufferHeight,
                              mSummedAreaTableWidth, mSummedAreaTableHeight,
                              mSummedAreaTableTO))
    /\ mSummedAreaTableTO' = IF mUseCPUForSAT THEN "mSummedColsTO" ELSE mSummedAreaTableTO
    /\ stages' = Append(stages, "SATPass")
    /\ pc' = "SATPass"
    /\ UNCHANGED <<paints, mFirstFrame, mEnableDoF, mUseCPUForSAT, mFocusDepth,
                   mSceneSP, mSummedAreaTableUpsweepSP, mSummedAreaTableDownsweepSP,
                   mTransposeSummedAreaTableSP, mDepthOfFieldSP,
                   mWindowWidth, mWindowHeight, mBackbufferWidth, mBackbufferHeight,
                   mSummedAreaTableWidth, mSummedAreaTableHeight,
                   bufs, resizeLog, profilingOpen, gpuRead, cpuRead, gpuStale, cpuStale>>
    /\ UNCHANGED satVars

\* (mutant) the SAT block is not inside "if (mEnableDoF)"
SATPassAlways ==
    /\ pc = "ResolvePass"
    /\ Issue(IF mUseCPUForSAT
             THEN CPUSATCalls(mSummedAreaTableTO)
             ELSE GPUSATCalls(mSummedAreaTableUpsweepSP, mSummedAreaTableDownsweepSP,
                              mTransposeSummedAreaTableSP,
                              mBackbufferWidth, mBackbufferHeight,
                              mSummedAreaTableWidth, mSummedAreaTableHeight,
                              mSummedAreaTableTO))
    /\ stages' = Append(stages, "SATPass")
    /\ pc' = "SATPass"
    /\ UNCHANGED <<paints, mFirstFrame, mEnableDoF, mUseCPUForSAT, mFocusDepth,
                   mSceneSP, mSummedAreaTableUpsweepSP, mSummedAreaTableDownsweepSP,
                   mTransposeSummedAreaTableSP, mDepthOfFieldSP,
                   mWindowWidth, mWindowHeight, mBackbufferWidth, mBackbufferHeight,
                   mSummedAreaTableWidth, mSummedAreaTableHeight, mSummedAreaTableTO,
                   bufs, resizeLog, profilingOpen, gpuRead, cpuRead, gpuStale, cpuStale>>
    /\ UNCHANGED satVars

\* "Compute SAT for the rendered image", inside if (mEnableDoF)
SATPass ==
    /\ pc = "ResolvePass"
    /\ mEnableDoF
    /\ Issue(IF mUseCPUForSAT
             THEN CPUSATCalls(mSummedAreaTableTO)
             ELSE GPUSATCalls(mSummedAreaTableUpsweepSP, mSummedAreaTableDownsweepSP,
                              mTransposeSummedAreaTableSP,
                              mBackbufferWidth, mBackbufferHeight,
                              mSummedAreaTableWidth, mSummedAreaTableHeight,
                              mSummedAreaTableTO))
    /\ stages' = Append(stages, "SATPass")
    /\ pc' = "SATPass"
    /\ UNCHANGED <<paints, mFirstFrame, mEnableDoF, mUseCPUForSAT, mFocusDepth,
                   mSceneSP, mSummedAreaTableUpsweepSP, mSummedAreaTableDownsweepSP,
                   mTransposeSummedAreaTableSP, mDepthOfFieldSP,
                   mWindowWidth, mWindowHeight, mBackbufferWidth, mBackbufferHeight,
                   mSummedAreaTableWidth, mSummedAreaTableHeight, mSummedAreaTableTO,
                   bufs, resizeLog, profilingOpen, gpuRead, cpuRead, gpuStale, cpuStale>>
    /\ UNCHANGED satVars

\* (mutant) the DoF block also runs straight after the resolve
DoFPassEarly ==
    /\ pc \in {"SATPass", "ResolvePass"}
    /\ Issue(DoFCalls(mDepthOfFieldSP, mSummedAreaTableTO))
    /\ stages' = Append(stages, "DoFPass")
    /\ pc' = "DoFPass"
    /\ UNCHANGED <<paints, mFirstFrame, mEnableDoF, mUseCPUForSAT, mFocusDepth,
                   mSceneSP, mSummedAreaTableUpsweepSP, mSummedAreaTableDownsweepSP,
                   mTransposeSummedAreaTableSP, mDepthOfFieldSP,
                   mWindowWidth, mWindowHeight, mBackbufferWidth, mBackbufferHeight,
                   mSummedAreaTableWidth, mSummedAreaTableHeight, mSummedAreaTableTO,
                   bufs, resizeLog, profilingOpen, gpuRead, cpuRead, gpuStale, cpuStale>>
    /\ UNCHANGED satVars

\* "Apply DoF-blur to scene", inside if (mEnableDoF)
DoFPass ==
    /\ pc = "SATPass"
    /\ Issue(DoFCalls(mDepthOfFieldSP, mSummedAreaTableTO))
    /\ stages' = Append(stages, "DoFPass")
    /\ pc' = "DoFPass"
    /\ UNCHANGED <<paints, mFirstFrame, mEnableDoF, mUseCPUForSAT, mFocusDepth,
                   mSceneSP, mSummedAreaTableUpsweepSP, mSummedAreaTableDownsweepSP,
                   mTransposeSummedAreaTableSP, mDepthOfFieldSP,
                   mWindowWidth, mWindowHeight, mBackbufferWidth, mBackbufferHeight,
                   mSummedAreaTableWidth, mSummedAreaTableHeight, mSummedAreaTableTO,
                   bufs, resizeLog, profilingOpen, gpuRead, cpuRead, gpuStale, cpuStale>>
    /\ UNCHANGED satVars

\* (mutant) the checkboxes are applied while the GUI is rendered
UIPassAppliesWidgets ==
    /\ \/ pc = "DoFPass"
       \/ pc = "ResolvePass" /\ ~mEnableDoF
    /\ Issue(<< GPUStamp("RenderGUI", "Start"),
                HostOp("ImGui::Render", "", "mBackbufferFBOSS"),
                GPUStamp("RenderGUI", "End") >>)
    /\ \E dof \in BOOLEAN, cpu \in BOOLEAN :
          mEnableDoF' = dof /\ mUseCPUForSAT' = cpu
    /\ stages' = Append(stages, "UIPass")
    /\ pc' = "UIPass"
    /\ UNCHANGED <<paints, mFirstFrame, mFocusDepth,
                   mSceneSP, mSummedAreaTableUpsweepSP, mSummedAreaTableDownsweepSP,
                   mTransposeSummedAreaTableSP, mDepthOfFieldSP,
                   mWindowWidth, mWindowHeight, mBackbufferWidth, mBackbufferHeight,
                   mSummedAreaTableWidth, mSummedAreaTableHeight, mSummedAreaTableTO,
                   bufs, resizeLog, profilingOpen, gpuRead, cpuRead, gpuStale, cpuStale>>
    /\ UNCHANGED satVars

\* "Render GUI": reached from the DoF block, or directly when DoF is off
UIPass ==
    /\ \/ pc = "DoFPass"
       \/ pc = "ResolvePass" /\ ~mEnableDoF
    /\ Issue(<< GPUStamp("RenderGUI", "Start"),
                HostOp("ImGui::Render", "", "mBackbufferFBOSS"),
                GPUStamp("RenderGUI", "End") >>)
    /\ stages' = Append(stages, "UIPass")
    /\ pc' = "UIPass"
    /\ UNCHANGED <<paints, mFirstFrame, mEnableDoF, mUseCPUForSAT, mFocusDepth,
                   mSceneSP, mSummedAreaTableUpsweepSP, mSummedAreaTableDownsweepSP,
                   mTransposeSummedAreaTableSP, mDepthOfFieldSP,
                   mWindowWidth, mWindowHeight, mBackbufferWidth, mBackbufferHeight,
                   mSummedAreaTableWidth, mSummedAreaTableHeight, mSummedAreaTableTO,
                   bufs, resizeLog, profilingOpen, gpuRead, cpuRead, gpuStale, cpuStale>>
    /\ UNCHANGED satVars

\* "Blit to window's framebuffer"
PresentPass ==
    /\ pc = "UIPass"
    /\ LET scaled == mWindowWidth # mBackbufferWidth \/ mWindowHeight # mBackbufferHeight
       IN  Issue(<< GPUStamp("BlitToWindow", "Start"),
                    Blit("mBackbufferFBOSS", "window",
                         IF scaled THEN "GL_LINEAR" ELSE "GL_NEAREST"),
                    GPUStamp("BlitToWindow", "End") >>)
    /\ stages' = Append(stages, "PresentPass")
    /\ pc' = "PresentPass"
    /\ UNCHANGED <<paints, mFirstFrame, mEnableDoF, mUseCPUForSAT, mFocusDepth,
                   mSceneSP, mSummedAreaTableUpsweepSP, mSummedAreaTableDownsweepSP,
                   mTransposeSummedAreaTableSP, mDepthOfFieldSP,
                   mWindowWidth, mWindowHeight, mBackbufferWidth, mBackbufferHeight,
                   mSummedAreaTableWidth, mSummedAreaTableHeight, mSummedAreaTableTO,
                   bufs, resizeLog, profilingOpen, gpuRead, cpuRead, gpuStale, cpuStale>>
    /\ UNCHANGED satVars

\* (mutant) the flag is cleared inside the DoF block only
PaintReturnDoFOnly ==
    /\ pc = "PresentPass"
    /\ mFirstFrame' = IF mEnableDoF THEN FALSE ELSE mFirstFrame
    /\ pc' = "Idle"
    /\ cmds' = <<>> /\ stages' = <<>>
    /\ profilingOpen' = FALSE
    /\ gpuRead' = {} /\ cpuRead' = {} /\ gpuStale' = {} /\ cpuStale' = {}
    /\ UNCHANGED <<paints, mEnableDoF, mUseCPUForSAT, mFocusDepth,
                   mSceneSP, mSummedAreaTableUpsweepSP, mSummedAreaTableDownsweepSP,
                   mTransposeSummedAreaTableSP, mDepthOfFieldSP,
                   mWindowWidth, mWindowHeight, mBackbufferWidth, mBackbufferHeight,
                   mSummedAreaTableWidth, mSummedAreaTableHeight, mSummedAreaTableTO,
                   bufs, resizeLog, gpuStamped, cpuStamped>>
    /\ UNCHANGED satVars

\* mFirstFrame = false; Paint returns
PaintReturn ==
    /\ pc = "PresentPass"
    /\ mFirstFrame' = FALSE
    /\ pc' = "Idle"
    \* no Paint is in progress any more
    /\ cmds' = <<>> /\ stages' = <<>>
    /\ profilingOpen' = FALSE
    /\ gpuRead' = {} /\ cpuRead' = {} /\ gpuStale' = {} /\ cpuStale' = {}
    /\ UNCHANGED <<paints, mEnableDoF, mUseCPUForSAT, mFocusDepth,
                   mSceneSP, mSummedAreaTableUpsweepSP, mSummedAreaTableDownsweepSP,
                   mTransposeSummedAreaTableSP, mDepthOfFieldSP,
                   mWindowWidth, mWindowHeight, mBackbufferWidth, mBackbufferHeight,
                   mSummedAreaTableWidth, mSummedAreaTableHeight, mSummedAreaTableTO,
                   bufs, resizeLog, gpuStamped, cpuStamped>>
    /\ UNCHANGED satVars

\* The table computation is not part of the pipeline specification.
SATIdle ==
    /\ spc = <<"off", 0>> /\ ran = <<>> /\ junk = 0 /\ tex = <<>>
    /\ mCPUBackbufferReadback = <<>> /\ mCPUSummedAreaTable = <<>>

Init == InitPipe /\ SATIdle /\ resizeHistory = <<>>

Next ==
    \/ \E width \in PaintDims, height \in PaintDims :
          Resize(width, height) /\ UNCHANGED resizeHistory
    \/ UpdateGUI /\ UNCHANGED resizeHistory
    \/ UpdatePrograms /\ UNCHANGED resizeHistory
    \/ ScenePass /\ UNCHANGED resizeHistory
    \/ ResolvePass /\ UNCHANGED resizeHistory
    \/ SATPass /\ UNCHANGED resizeHistory
    \/ DoFPass /\ UNCHANGED resizeHistory
    \/ UIPass /\ UNCHANGED resizeHistory
    \/ PresentPass /\ UNCHANGED resizeHistory
    \/ PaintReturn /\ UNCHANGED resizeHistory

Spec == Init /\ [][Next]_vars

\* the last three entries of a history
LastThree(h) == IF Len(h) > 3 THEN Tail(h) ELSE h

\* Resize(width, height), remembered once it has returned: its arguments and
\* the dimensions it gave every buffer. A failed assert ends the process and
\* its history with it.
ResizeRecorded(width, height) ==
    /\ Resize(width, height)
    /\ resizeHistory' =
          IF pc' = "Idle"
          THEN LastThree(Append(resizeHistory,
                   [width |-> width, height |-> height, bufs |-> bufs']))
          ELSE <<>>

\* Resize alone, over every window size up to MaxDim.
NextResize == \E width \in 0..MaxDim, height \in 0..MaxDim : ResizeRecorded(width, height)

SpecResize == Init /\ [][NextResize]_vars

----------------------------------------------------------------------------
(* The table computation on image data *)

\* glm::uvec4(pow(glm::vec4(c) / 255.0f, glm::vec4(2.2f)) * 255.0f) for every
\* 8-bit c: single-precision pow, then truncation towards zero.
GammaTable == <<
      0,   0,   0,   0,   0,   0,   0,   0,   0,   0,   0,   0,   0,   0,   0,   0,
      0,   0,   0,   0,   0,   1,   1,   1,   1,   1,   1,   1,   1,   2,   2,   2,
      2,   2,   3,   3,   3,   3,   3,   4,   4,   4,   4,   5,   5,   5,   5,   6,
      6,   6,   7,   7,   7,   8,   8,   8,   9,   9,   9,  10,  10,  10,  11,  11,
     12,  12,  13,  13,  13,  14,  14,  15,  15,  16,  16,  17,  17,  18,  18,  19,
     19,  20,  21,  21,  22,  22,  23,  23,  24,  25,  25,  26,  27,  27,  28,  29,
     29,  30,  31,  31,  32,  33,  33,  34,  35,  36,  36,  37,  38,  39,  40,  40,
     41,  42,  43,  44,  45,  45,  46,  47,  48,  49,  50,  51,  52,  53,  54,  55,
     55,  56,  57,  58,  59,  60,  61,  62,  63,  65,  66,  67,  68,  69,  70,  71,
     72,  73,  74,  75,  77,  78,  79,  80,  81,  82,  84,  85,  86,  87,  88,  90,
     91,  92,  93,  95,  96,  97,  99, 100, 101, 103, 104, 105, 107, 108, 109, 111,
    112, 114, 115, 117, 118, 119, 121, 122, 124, 125, 127, 128, 130, 131, 133, 135,
    136, 138, 139, 141, 142, 144, 146, 147, 149, 151, 152, 154, 156, 157, 159, 161,
    162, 164, 166, 168, 169, 171, 173, 175, 176, 178, 180, 182, 184, 186, 187, 189,
    191, 193, 195, 197, 199, 201, 203, 205, 207, 209, 211, 213, 215, 217, 219, 221,
    223, 225, 227, 229, 231, 233, 235, 237, 239, 241, 244, 246, 248, 250, 252, 255 >>

Decode(c) == GammaTable[c + 1]

\* element (x, y) of a row-major array of the given row width
At(a, width, x, y) == a[y * width + x + 1]

RECURSIVE SumRange(_, _, _)
SumRange(f, lo, hi) == IF lo > hi THEN 0 ELSE f[hi] + SumRange(f, lo, hi - 1)

(* ---- CPU path: "sum the rows", "sum the columns", upload ---- *)

\* (mutant) the gamma decode of the loop body is missing
RECURSIVE SumRowFromRaw(_, _, _, _, _, _)
SumRowFromRaw(table, readback, w, tw, row, col) ==
    IF col >= w THEN table
    ELSE SumRowFromRaw([table EXCEPT ![row * tw + col + 1] =
                           readback[row * w + col + 1]
                           + table[row * tw + (col - 1) + 1]],
                       readback, w, tw, row, col + 1)

\* the inner loop "for (col = 1; col < mBackbufferWidth; col++)" of one row
RECURSIVE SumRowFrom(_, _, _, _, _, _)
SumRowFrom(table, readback, w, tw, row, col) ==
    IF col >= w THEN table
    ELSE SumRowFrom([table EXCEPT ![row * tw + col + 1] =
                        Decode(readback[row * w + col + 1])
                        + table[row * tw + (col - 1) + 1]],
                    readback, w, tw, row, col + 1)

\* "for (row = 0; row < mBackbufferHeight; row++)": first pixel, then the loop
RECURSIVE SumRows(_, _, _, _, _, _)
SumRows(table, readback, w, h, tw, row) ==
    IF row >= h THEN table
    ELSE SumRows(SumRowFrom([table EXCEPT ![row * tw + 0 + 1] =
                                Decode(readback[row * w + 0 + 1])],
                            readback, w, tw, row, 1),
                 readback, w, h, tw, row + 1)

\* "for (row = 1; row < mBackbufferHeight; row++)" of one column
RECURSIVE SumColFrom(_, _, _, _, _)
SumColFrom(table, h, tw, col, row) ==
    IF row >= h THEN table
    ELSE SumColFrom([table EXCEPT ![row * tw + col + 1] =
                        table[row * tw + col + 1] + table[(row - 1) * tw + col + 1]],
                    h, tw, col, row + 1)

\* "for (col = 0; col < mBackbufferWidth; col++)"
RECURSIVE SumCols(_, _, _, _, _)
SumCols(table, w, h, tw, col) ==
    IF col >= w THEN table
    ELSE SumCols(SumColFrom(table, h, tw, col, 1), w, h, tw, col + 1)

\* (mutant) the source row is taken at &table[row * w]: the host table is
\* read as if it were packed to the image width
UploadPackedStride(texels, texw, table, w, h, tw) ==
    [i \in 1..Len(texels) |->
        LET x == (i - 1) % texw
            y == (i - 1) \div texw
        IN  IF x < w /\ y < h THEN table[y * w + x + 1] ELSE texels[i]]

\* glTexSubImage2D(.., 0, row, mBackbufferWidth, 1, .., &table[row * tw]) for
\* every row < mBackbufferHeight, into a texture of row width texw
Upload(texels, texw, table, w, h, tw) ==
    [i \in 1..Len(texels) |->
        LET x == (i - 1) % texw
            y == (i - 1) \div texw
        IN  IF x < w /\ y < h THEN table[y * tw + x + 1] ELSE texels[i]]

(* ---- GPU path: what one dispatch of each compute program does ---- *)

\* texelFetch / imageLoad; outside the texture the result is undefined
Fetch(texels, width, x, y, undef) ==
    IF x < width /\ y * width + x + 1 <= Len(texels) THEN At(texels, width, x, y) ELSE undef

\* sat_up.comp: every workgroup (g, y) scans its SAT_WORKGROUP_SIZE_X inputs
\* inclusively and stores element t at output (g*TILE + t, y). The input of
\* element e is the decoded color texel (READ_UINT_INPUT = 0), the
\* accumulated texel (READ_UINT_INPUT = 1), or with READ_WGSUM = 1 the total
\* of tile e: the last element of that tile in the accumulated texture.
UpSweep(inp, inw, decode, out, outw, gx, gy, uniforms, undef) ==
    LET val(e, y) ==
            IF uniforms[2] = 1
            THEN Fetch(inp, inw, e * TILE + (TILE - 1), y, undef)
            ELSE IF uniforms[1] = 1
            THEN Fetch(inp, inw, e, y, undef)
            ELSE IF e < inw /\ y * inw + e + 1 <= Len(inp)
                 THEN Decode(At(inp, inw, e, y)) ELSE undef
    IN  [i \in 1..Len(out) |->
            LET x == (i - 1) % outw
                y == (i - 1) \div outw
                first == (x \div TILE) * TILE
            IN  IF y < gy /\ x < gx * TILE
                THEN SumRange([e \in first..x |-> val(e, y)], first, x)
                ELSE out[i]]

\* sat_down.comp with ADD_WGSUM = 0: the inclusive scan of a tile becomes
\* exclusive in place (element t takes the value of t - 1, element 0 takes 0).
\* With ADD_WGSUM = 1: every element adds the carry-in of its tile.
DownSweep(wg, wgw, out, outw, gx, gy, uniforms, undef) ==
    [i \in 1..Len(out) |->
        LET x == (i - 1) % outw
            y == (i - 1) \div outw
        IN  IF y < gy /\ x < gx * TILE
            THEN IF uniforms[1] = 1
                 THEN out[i] + Fetch(wg, wgw, x \div TILE, y, undef)
                 ELSE IF x % TILE = 0 THEN 0 ELSE At(out, outw, x - 1, y)
            ELSE out[i]]

\* sat_transpose.comp: output (y, x) = input (x, y) for every invocation
Transpose(inp, inw, out, outw, gx, gy) ==
    [i \in 1..Len(out) |->
        LET x == (i - 1) \div outw      \* column of the input
            y == (i - 1) % outw         \* row of the input
        IN  IF x < gx * TRANSPOSE_SAT_WORKGROUP_SIZE_X
               /\ y < gy * TRANSPOSE_SAT_WORKGROUP_SIZE_X
               /\ x < inw /\ y * inw + x + 1 <= Len(inp)
            THEN At(inp, inw, x, y) ELSE out[i]]

\* (mutant) glUniform1i(SAT_ADD_WGSUM_UNIFORM_LOCATION, 0) is missing: the
\* down-sweep program always runs with ADD_WGSUM = 1
ExecAddsCarryAlways(c, t, dims, undef) ==
    CASE c.prog = "mSummedAreaTableUpsweepSP" ->
            [t EXCEPT ![c.wr] = UpSweep(t[c.rd], dims[c.rd][1], TRUE, t[c.wr],
                                        dims[c.wr][1], c.gx, c.gy, c.uniforms, undef)]
      [] c.prog = "mSummedAreaTableDownsweepSP" ->
            [t EXCEPT ![c.wr] = DownSweep(t[c.rd], dims[c.rd][1], t[c.wr],
                                          dims[c.wr][1], c.gx, c.gy, <<1>>, undef)]
      [] c.prog = "mTransposeSummedAreaTableSP" ->
            [t EXCEPT ![c.wr] = Transpose(t[c.rd], dims[c.rd][1], t[c.wr],
                                          dims[c.wr][1], c.gx, c.gy)]

\* The effect of one glDispatchCompute of the command stream on the textures.
Exec(c, t, dims, undef) ==
    CASE c.prog = "mSummedAreaTableUpsweepSP" ->
            [t EXCEPT ![c.wr] = UpSweep(t[c.rd], dims[c.rd][1], TRUE, t[c.wr],
                                        dims[c.wr][1], c.gx, c.gy, c.uniforms, undef)]
      [] c.prog = "mSummedAreaTableDownsweepSP" ->
            [t EXCEPT ![c.wr] = DownSweep(t[c.rd], dims[c.rd][1], t[c.wr],
                                          dims[c.wr][1], c.gx, c.gy, c.uniforms, undef)]
      [] c.prog = "mTransposeSummedAreaTableSP" ->
            [t EXCEPT ![c.wr] = Transpose(t[c.rd], dims[c.rd][1], t[c.wr],
                                          dims[c.wr][1], c.gx, c.gy)]

\* the dispatches of the GPU SAT branch, in issue order
IsDispatch(c) == c.op = "glDispatchCompute"

GPUDispatches ==
    SelectSeq(GPUSATCalls(TRUE, TRUE, TRUE, mBackbufferWidth, mBackbufferHeight,
                          mSummedAreaTableWidth, mSummedAreaTableHeight,
                          mSummedAreaTableTO),
              IsDispatch)

(* ---- the SAT block of Paint run on data ---- *)

Textures == {"mBackbufferColorTOSS", "mSummedRowsTO", "mSummedRowsWGSumsTO",
             "mSummedColsTO", "mSummedColsWGSumsTO"}

\* Source images of w*h pixels with at most MaxLit non-zero pixels.
Images(n) ==
    UNION {{[i \in 1..n |-> IF i \in L THEN v[i] ELSE 0] : v \in [L -> LitValues]} :
            L \in {S \in SUBSET (1..n) : Cardinality(S) <= MaxLit}}

\* The state after Init and Resize(w, h), a frame resolved into
\* mBackbufferColorTOSS, all three compute programs compiled.
InitSAT ==
    \E w \in 1..MaxDim, h \in 1..MaxDim :
        /\ SingleTierAssert(PaddedDim(w), PaddedDim(h))
        /\ pc = "Idle" /\ paints = 0 /\ mFirstFrame = TRUE
        /\ mEnableDoF = TRUE /\ mUseCPUForSAT = FALSE /\ mFocusDepth = 5
        /\ mSceneSP = TRUE
        /\ mSummedAreaTableUpsweepSP = TRUE
        /\ mSummedAreaTableDownsweepSP = TRUE
        /\ mTransposeSummedAreaTableSP = TRUE
        /\ mDepthOfFieldSP = TRUE
        /\ mWindowWidth = w /\ mWindowHeight = h
        /\ mBackbufferWidth = w /\ mBackbufferHeight = h
        /\ mSummedAreaTableWidth = PaddedDim(w)
        /\ mSummedAreaTableHeight = PaddedDim(h)
        /\ mSummedAreaTableTO = "mSummedRowsTO"
        /\ bufs = [b \in RenderTargets \cup SATBuffers |->
                     IF b \in RenderTargets THEN RenderTargetDims(w, h)[b]
                     ELSE SATBufferDims(w, h, PaddedDim(w), PaddedDim(h))[b]]
        /\ resizeLog = ResizeRenderTargetCalls \o ResizeSATCalls
        /\ gpuStamped = {} /\ cpuStamped = {}
        /\ cmds = <<>> /\ stages = <<>> /\ profilingOpen = FALSE
        /\ gpuRead = {} /\ cpuRead = {} /\ gpuStale = {} /\ cpuStale = {}
        /\ spc = <<"idle", 0>> /\ ran = <<>>
        /\ junk \in JunkValues
        /\ \E img \in Images(w * h) :
             tex = [t \in Textures |->
                      IF t = "mBackbufferColorTOSS" THEN img
                      ELSE [i \in 1..(bufs[t][1] * bufs[t][2]) |-> junk]]
        /\ mCPUBackbufferReadback = [i \in 1..(w * h) |-> junk]
        /\ mCPUSummedAreaTable = [i \in 1..(PaddedDim(w) * PaddedDim(h)) |-> junk]
        /\ resizeHistory = <<>>

\* glReadPixels(0, 0, w, h, GL_RGBA, GL_UNSIGNED_BYTE, &mCPUBackbufferReadback[0])
SATReadback ==
    /\ spc = <<"idle", 0>> /\ "cpu" \notin {ran[i] : i \in DOMAIN ran}
    /\ mUseCPUForSAT' = TRUE
    /\ mCPUBackbufferReadback' = tex["mBackbufferColorTOSS"]
    /\ spc' = <<"cpu", 1>>
    /\ UNCHANGED <<ran, junk, tex, mCPUSummedAreaTable>>

SATSumRows ==
    /\ spc = <<"cpu", 1>>
    /\ mCPUSummedAreaTable' = SumRows(mCPUSummedAreaTable, mCPUBackbufferReadback,
                                      mBackbufferWidth, mBackbufferHeight,
                                      mSummedAreaTableWidth, 0)
    /\ spc' = <<"cpu", 2>>
    /\ UNCHANGED <<mUseCPUForSAT, ran, junk, tex, mCPUBackbufferReadback>>

SATSumCols ==
    /\ spc = <<"cpu", 2>>
    /\ mCPUSummedAreaTable' = SumCols(mCPUSummedAreaTable, mBackbufferWidth,
                                      mBackbufferHeight, mSummedAreaTableWidth, 0)
    /\ spc' = <<"cpu", 3>>
    /\ UNCHANGED <<mUseCPUForSAT, ran, junk, tex, mCPUBackbufferReadback>>

\* (mutant) the finished host table is uploaded into the column table
SATUploadIntoColumnTable ==
    /\ spc = <<"cpu", 3>>
    /\ tex' = [tex EXCEPT !["mSummedColsTO"] =
                  Upload(tex["mSummedColsTO"], bufs["mSummedColsTO"][1],
                         mCPUSummedAreaTable, mBackbufferWidth, mBackbufferHeight,
                         mSummedAreaTableWidth)]
    /\ ran' = Append(ran, "cpu")
    /\ spc' = <<"idle", 0>>
    /\ UNCHANGED <<mUseCPUForSAT, junk, mCPUBackbufferReadback, mCPUSummedAreaTable>>

\* glBindTexture(GL_TEXTURE_2D, *mSummedAreaTableTO) and one glTexSubImage2D
\* per row
SATUpload ==
    /\ spc = <<"cpu", 3>>
    /\ tex' = [tex EXCEPT ![mSummedAreaTableTO] =
                  Upload(tex[mSummedAreaTableTO], bufs[mSummedAreaTableTO][1],
                         mCPUSummedAreaTable, mBackbufferWidth, mBackbufferHeight,
                         mSummedAreaTableWidth)]
    /\ ran' = Append(ran, "cpu")
    /\ spc' = <<"idle", 0>>
    /\ UNCHANGED <<mUseCPUForSAT, junk, mCPUBackbufferReadback, mCPUSummedAreaTable>>

\* the next glDispatchCompute of the GPU branch
SATDispatch ==
    /\ \/ spc = <<"idle", 0>> /\ "gpu" \notin {ran[i] : i \in DOMAIN ran}
       \/ spc[1] = "gpu"
    /\ LET n == spc[2] + 1
       IN  /\ tex' = Exec(GPUDispatches[n], tex, bufs, junk)
           /\ spc' = IF n = Len(GPUDispatches) THEN <<"idle", 0>> ELSE <<"gpu", n>>
           /\ ran' = IF n = Len(GPUDispatches) THEN Append(ran, "gpu") ELSE ran
    /\ mUseCPUForSAT' = FALSE
    /\ UNCHANGED <<junk, mCPUBackbufferReadback, mCPUSummedAreaTable>>

satFrame == <<pc, paints, mFirstFrame, mEnableDoF, mFocusDepth,
              mSceneSP, mSummedAreaTableUpsweepSP, mSummedAreaTableDownsweepSP,
              mTransposeSummedAreaTableSP, mDepthOfFieldSP,
              mWindowWidth, mWindowHeight, mBackbufferWidth, mBackbufferHeight,
              mSummedAreaTableWidth, mSummedAreaTableHeight, mSummedAreaTableTO,
              bufs, resizeLog, gpuStamped, cpuStamped, cmds, stages,
              profilingOpen, gpuRead, cpuRead, gpuStale, cpuStale, resizeHistory>>

NextSAT ==
    \/ SATReadback /\ UNCHANGED satFrame
    \/ SATSumRows /\ UNCHANGED satFrame
    \/ SATSumCols /\ UNCHANGED satFrame
    \/ SATUpload /\ UNCHANGED satFrame
    \/ SATDispatch /\ UNCHANGED satFrame

SpecSAT == InitSAT /\ [][NextSAT]_vars

----------------------------------------------------------------------------
(* Properties *)

InRange == {<<x, y>> \in (0..(MaxDim - 1)) \X (0..(MaxDim - 1)) :
                x < mBackbufferWidth /\ y < mBackbufferHeight}

Ran(path) == path \in {ran[i] : i \in DOMAIN ran}

\* Both results are in place: the GPU path has written the table texture and
\* nothing has overwritten it, and the host table holds the finished CPU sum.
BothTablesReady ==
    \/ ran = <<"gpu">> /\ spc = <<"cpu", 3>>
    \/ ran = <<"cpu", "gpu">>

\* C1: for every image within the single-tier bound, after the GPU path (rows
\* pass, transpose, columns pass, transpose back) and the CPU two-pass sum
\* have both run on the same resolved image with the same decode, the table
\* texture equals the host table at every (x, y) with x < W and y < H.
C1_GPUEqualsCPU ==
    BothTablesReady =>
        \A p \in InRange :
            At(tex[mSummedAreaTableTO], mSummedAreaTableWidth, p[1], p[2])
              = At(mCPUSummedAreaTable, mSummedAreaTableWidth, p[1], p[2])

\* the GPU path ran first on a 3x3 image (two tiles on both axes) with a lit
\* pixel and non-zero junk in the padding, then the CPU sum finished
C1_Witness ==
    /\ ran = <<"gpu">> /\ spc = <<"cpu", 3>>
    /\ mBackbufferWidth = 3 /\ mBackbufferHeight = 3
    /\ junk # 0
    /\ At(tex[mSummedAreaTableTO], mSummedAreaTableWidth, 2, 2) = 55 + 55
    /\ At(tex[mSummedAreaTableTO], mSummedAreaTableWidth, 1, 1) = 55

\* sum of decode(src[y'][x']) over y' <= y, x' <= x, taken pixel by pixel
RectSum(img, w, x, y) ==
    SumRange([k \in 0..((x + 1) * (y + 1) - 1) |->
                 Decode(At(img, w, k % (x + 1), k \div (x + 1)))],
             0, (x + 1) * (y + 1) - 1)

\* C2: after the CPU row pass and the in-place column pass, every entry
\* (x, y) with x < W and y < H is the sum of the once-decoded source pixels
\* (x', y') with x' <= x and y' <= y.
C2_CPUTableIsPrefixSum ==
    (spc = <<"cpu", 3>> \/ Ran("cpu")) =>
        \A p \in InRange :
            At(mCPUSummedAreaTable, mSummedAreaTableWidth, p[1], p[2])
              = RectSum(tex["mBackbufferColorTOSS"], mBackbufferWidth, p[1], p[2])

\* the column pass has finished on a 4x3 image with two lit pixels whose
\* decoded values differ from their encoded values
C2_Witness ==
    /\ spc = <<"cpu", 3>>
    /\ mBackbufferWidth = 4 /\ mBackbufferHeight = 3
    /\ At(mCPUSummedAreaTable, mSummedAreaTableWidth, 3, 2) = 55 + 55
    /\ At(mCPUSummedAreaTable, mSummedAreaTableWidth, 0, 0) = 0

\* the smallest multiple of TILE that is >= dim
IsPaddingOf(padded, dim) ==
    /\ padded % TILE = 0
    /\ padded >= dim
    /\ padded - TILE < dim
    /\ padded = ((dim + TILE - 1) \div TILE) * TILE

\* C3: after Resize(W, H) has returned, the table width is ceil(W/TILE)*TILE
\* and the table height is ceil(H/TILE)*TILE.
C3_PaddingInvariant ==
    pc = "Idle" =>
        /\ IsPaddingOf(mSummedAreaTableWidth, mBackbufferWidth)
        /\ IsPaddingOf(mSummedAreaTableHeight, mBackbufferHeight)

\* Resize(3, 1) has returned: width padded to 4, height to 2
C3_Witness ==
    /\ pc = "Idle" /\ resizeLog # <<>>
    /\ mWindowWidth = 3 /\ mWindowHeight = 1
    /\ mSummedAreaTableWidth = 4 /\ mSummedAreaTableHeight = 2

TierBoundHolds(tw, th) == tw \div TILE <= TILE /\ th \div TILE <= TILE

TouchesSATBuffer(log) == \E i \in DOMAIN log : log[i].buf \in SATBuffers

\* C4: a Resize whose table dimensions violate the single-tier bound stops at
\* the assertion with no SAT or CPU buffer released or reallocated, and every
\* state in which Resize has returned satisfies the bound.
C4_AssertAtAllocation ==
    /\ [][ ~TierBoundHolds(mSummedAreaTableWidth', mSummedAreaTableHeight')
             => /\ pc' = "Aborted"
                /\ \A b \in SATBuffers : bufs'[b] = bufs[b]
                /\ ~TouchesSATBuffer(resizeLog') ]_vars
    /\ [](pc # "Aborted" => TierBoundHolds(mSummedAreaTableWidth, mSummedAreaTableHeight))

\* Resize(1, 5) after a successful Resize(3, 3): stopped, tables still 4x4
C4_Witness ==
    /\ pc = "Aborted"
    /\ mBackbufferWidth = 1 /\ mBackbufferHeight = 5
    /\ mSummedAreaTableHeight \div TILE > TILE
    /\ bufs["mSummedRowsTO"] = <<4, 4>>
    /\ bufs["mCPUBackbufferReadback"] = <<9, 1>>

FullFrame == <<"ScenePass", "ResolvePass", "SATPass", "DoFPass", "UIPass", "PresentPass">>

ShortFrame == <<"ScenePass", "ResolvePass", "UIPass", "PresentPass">>

IsPrefix(a, b) == Len(a) <= Len(b) /\ \A i \in 1..Len(a) : a[i] = b[i]

\* C5: the stages of a frame are entered in the order ScenePass, ResolvePass,
\* [SATPass, DoFPass], UIPass, PresentPass, each at most once; only SATPass
\* and DoFPass can be left out; the frame ends in PresentPass and goes back
\* to Idle.
C5_StageOrder ==
    /\ [](/\ IsPrefix(stages, FullFrame) \/ IsPrefix(stages, ShortFrame)
          /\ pc \in {"Idle", "UpdateGUI", "UpdatePrograms", "Aborted"} => stages = <<>>
          /\ pc \notin {"Idle", "UpdateGUI", "UpdatePrograms", "Aborted"} =>
                stages # <<>> /\ stages[Len(stages)] = pc
          /\ pc = "PresentPass" => stages \in {FullFrame, ShortFrame})
    /\ [][pc = "PresentPass" => pc' = "Idle"]_vars
    /\ [][pc' = "Idle" => pc \in {"PresentPass", "Idle"}]_vars

\* a later frame that went through all six stages
C5_Witness == pc = "PresentPass" /\ stages = FullFrame /\ paints = 2

Ops(o) == {i \in DOMAIN cmds : cmds[i].op = o}

CPUPathOps == {"glReadPixels", "sum the rows", "sum the columns", "glTexSubImage2D"}

SATStampIssued(o) == \E i \in Ops(o) : cmds[i].name \in SATPairNames

DoFDrawn == \E i \in Ops("glDraw") : cmds[i].prog = "mDepthOfFieldSP"

PastSAT == pc \in {"SATPass", "DoFPass", "UIPass", "PresentPass"}

SATProgramsValid ==
    mSummedAreaTableUpsweepSP /\ mSummedAreaTableDownsweepSP /\ mTransposeSummedAreaTableSP

\* C6: with DoF disabled no SAT sub-path runs, the blur is not drawn and no
\* SAT timestamp of either clock is issued; with DoF enabled the sub-path
\* chosen by mUseCPUForSAT runs and the other one does not.
C6_SATOnlyWithDoF ==
    /\ ~mEnableDoF =>
          /\ \A o \in CPUPathOps \cup {"glDispatchCompute", "glMemoryBarrier"} : Ops(o) = {}
          /\ ~DoFDrawn
          /\ ~SATStampIssued("glQueryCounter")
          /\ ~SATStampIssued("QueryPerformanceCounter")
    /\ (mEnableDoF /\ PastSAT /\ mUseCPUForSAT) =>
          /\ \A o \in CPUPathOps : Cardinality(Ops(o)) = 1
          /\ Ops("glDispatchCompute") = {}
          /\ ~PairRecorded(gpuStamped, "ComputeSAT")
          /\ \A n \in {"ReadbackBackbuffer", "SATUpload"} : PairRecorded(gpuStamped, n)
          /\ \A n \in SATPairNames : PairRecorded(cpuStamped, n)
    /\ (mEnableDoF /\ PastSAT /\ ~mUseCPUForSAT) =>
          /\ \A o \in CPUPathOps : Ops(o) = {}
          /\ cpuStamped = {}
          /\ \A n \in {"ReadbackBackbuffer", "SATUpload"} :
                <<n, "Start">> \notin gpuStamped /\ <<n, "End">> \notin gpuStamped
          /\ PairRecorded(gpuStamped, "ComputeSAT")
          /\ SATProgramsValid => Cardinality(Ops("glDispatchCompute")) = 10

\* a finished frame with DoF switched off although every program is valid
C6_Witness ==
    /\ pc = "PresentPass" /\ ~mEnableDoF
    /\ SATProgramsValid /\ mDepthOfFieldSP
    /\ paints = 2

\* C7: every timestamp pair UpdateGUI reads was recorded, start and end, by
\* the immediately preceding frame.
C7_ReadsOnlyFreshPairs == gpuStale = {} /\ cpuStale = {}

\* C8: during the first Paint after Init no timestamp query result and no
\* wall-clock record is read, whatever the toggles are.
C8_FirstFrameReadsNothing ==
    paints = 1 => gpuRead = {} /\ cpuRead = {}

\* the first Paint, with the profiling window open
C8_Witness ==
    /\ paints = 1 /\ pc = "PresentPass" /\ profilingOpen
    /\ mFirstFrame /\ mUseCPUForSAT

\* C9: the first-frame flag is true after Init, false whenever a Paint has
\* returned, and never goes from false back to true.
C9_FirstFrameFlag ==
    /\ [](paints = 0 => mFirstFrame)
    /\ [](pc = "Idle" /\ paints >= 1 => ~mFirstFrame)
    /\ [][pc = "PresentPass" => ~mFirstFrame']_vars
    /\ [][~mFirstFrame => ~mFirstFrame']_vars

\* a Paint with DoF off and no valid program has returned
C9_Witness ==
    /\ pc = "Idle" /\ paints >= 1 /\ ~mFirstFrame
    /\ ~mEnableDoF /\ ~mSceneSP /\ ~mDepthOfFieldSP

ProgramValid(prog) ==
    CASE prog = "mSceneSP" -> mSceneSP
      [] prog = "mSummedAreaTableUpsweepSP" -> mSummedAreaTableUpsweepSP
      [] prog = "mSummedAreaTableDownsweepSP" -> mSummedAreaTableDownsweepSP
      [] prog = "mTransposeSummedAreaTableSP" -> mTransposeSummedAreaTableSP
      [] prog = "mDepthOfFieldSP" -> mDepthOfFieldSP

BlitIssued(rd, wr) ==
    \E i \in Ops("glBlitFramebuffer") : cmds[i].rd = rd /\ cmds[i].wr = wr

\* C10: no draw or dispatch uses a program whose validity flag is zero; the
\* GPU SAT stage issues nothing unless its three programs are all valid; the
\* resolve, the UI pass and the presentation blit are still performed and
\* the first-frame flag is still cleared.
C10_ProgramNotReady ==
    /\ [](/\ \A i \in Ops("glDraw") \cup Ops("glDispatchCompute") :
                ProgramValid(cmds[i].prog)
          /\ ~SATProgramsValid => Ops("glDispatchCompute") = {}
          /\ ~mSceneSP => \A i \in Ops("glDraw") : cmds[i].prog # "mSceneSP"
          /\ ~mDepthOfFieldSP =>
                ~DoFDrawn /\ \A i \in Ops("glMemoryBarrier") : cmds[i].bits # FetchOnly
          /\ pc = "PresentPass" =>
                /\ BlitIssued("mBackbufferFBOMS", "mBackbufferFBOSS")
                /\ Ops("ImGui::Render") # {}
                /\ BlitIssued("mBackbufferFBOSS", "window"))
    /\ [][pc = "PresentPass" => pc' = "Idle" /\ ~mFirstFrame']_vars

\* a finished GPU-mode frame with only the up-sweep program valid
C10_Witness ==
    /\ pc = "PresentPass" /\ mEnableDoF /\ ~mUseCPUForSAT
    /\ mSummedAreaTableUpsweepSP /\ mSummedAreaTableDownsweepSP
    /\ ~mTransposeSummedAreaTableSP
    /\ ~mSceneSP /\ ~mDepthOfFieldSP

\* the commands that consume what an earlier dispatch wrote: every dispatch
\* of the GPU path and the DoF draw that samples the table
Consumers ==
    Ops("glDispatchCompute")
    \cup {i \in Ops("glDraw") : cmds[i].prog = "mDepthOfFieldSP"}

BarrierBetween(i, j) == \E k \in Ops("glMemoryBarrier") : i < k /\ k < j

\* C11: in the GPU path a memory barrier is issued between the dispatch of
\* every step and the dispatch of the next one (1-2, 2-3, 3-4, 4-transpose,
\* row transpose - column step 1) and between the last transpose and the DoF
\* draw; no dispatch or DoF draw follows a dispatch without a barrier between.
C11_BarrierBetweenSteps ==
    \A j \in Consumers : \A i \in Ops("glDispatchCompute") :
        i < j => BarrierBetween(i, j)

\* a GPU-mode frame that issued all ten dispatches and then drew the blur
C11_Witness ==
    /\ pc = "DoFPass" /\ ~mUseCPUForSAT
    /\ Cardinality(Ops("glDispatchCompute")) = 10
    /\ DoFDrawn
    /\ \E j \in Ops("glDraw") : \E i \in Ops("glDispatchCompute") :
          i < j /\ cmds[i].prog = "mTransposeSummedAreaTableSP" /\ BarrierBetween(i, j)

\* a dispatch i that writes the buffer a later dispatch or DoF draw j reads
WriterReader(i, j) ==
    /\ cmds[i].op = "glDispatchCompute"
    /\ cmds[j].op = "glDispatchCompute"
       \/ (cmds[j].op = "glDraw" /\ cmds[j].prog = "mDepthOfFieldSP")
    /\ i < j /\ cmds[i].wr = cmds[j].rd

BarriersBetween(i, j) == {k \in (i + 1)..(j - 1) : cmds[k].op = "glMemoryBarrier"}

\* C12 as stated: every barrier between a step that writes a buffer and a
\* step that reads it covers both shader image access and texture fetch.
C12_BarriersCoverBoth ==
    \A i \in DOMAIN cmds, j \in DOMAIN cmds :
        WriterReader(i, j) =>
            \A k \in BarriersBetween(i, j) : ImageAndFetch \subseteq cmds[k].bits

\* C12 (amended): between a step that writes a buffer and a step that reads
\* it there is a barrier covering the kind of access by which the reader
\* reads: texture fetch for up-sweep steps 1 and 2 and the DoF draw, shader
\* image access for down-sweep steps 3 and 4 and the transpose.
C12_BarrierCoversReader ==
    \A i \in DOMAIN cmds, j \in DOMAIN cmds :
        WriterReader(i, j) =>
            \E k \in BarriersBetween(i, j) : ReadsAs(cmds[j]) \in cmds[k].bits

\* a GPU-mode frame in which the blur samples the table the last transpose
\* wrote, behind a barrier that covers texture fetch only
C12_Witness ==
    /\ pc = "DoFPass" /\ ~mUseCPUForSAT
    /\ \E i \in DOMAIN cmds, j \in DOMAIN cmds :
          /\ WriterReader(i, j)
          /\ cmds[j].op = "glDraw"
          /\ cmds[i].prog = "mTransposeSummedAreaTableSP"
          /\ \A k \in BarriersBetween(i, j) : cmds[k].bits = FetchOnly
    /\ \E i \in DOMAIN cmds, j \in DOMAIN cmds :
          /\ WriterReader(i, j)
          /\ cmds[i].step = 2 /\ cmds[j].step = 3
          /\ \A k \in BarriersBetween(i, j) : cmds[k].bits = ImageOnly

SameArguments(a, b) == a.width = b.width /\ a.height = b.height

\* C13: the dimensions Resize gives every buffer depend on the arguments of
\* that call only: whenever the most recent Resize had the arguments of the
\* call before it (W,H twice) or of the call before that (A ; B ; A), every
\* buffer has the dimensions that earlier call gave it.
C13_ResizeDependsOnArgumentsOnly ==
    (pc = "Idle" /\ resizeHistory # <<>>) =>
        LET last == resizeHistory[Len(resizeHistory)]
        IN  /\ last.bufs = bufs
            /\ last.width = mWindowWidth /\ last.height = mWindowHeight
            /\ \A i \in DOMAIN resizeHistory :
                  SameArguments(resizeHistory[i], last)
                      => resizeHistory[i].bufs = bufs

\* Resize(3, 2) ; Resize(1, 4) ; Resize(3, 2) has returned
C13_Witness ==
    /\ pc = "Idle" /\ Len(resizeHistory) = 3
    /\ resizeHistory[1].width = 3 /\ resizeHistory[1].height = 2
    /\ resizeHistory[2].width = 1 /\ resizeHistory[2].height = 4
    /\ SameArguments(resizeHistory[1], resizeHistory[3])
    /\ resizeHistory[2].bufs # bufs
    /\ bufs["mSummedColsWGSumsTO"] = <<1, 4>>

\* dim rounded up to a multiple of the tile width
CeilToTile(dim) == ((dim + TILE - 1) \div TILE) * TILE

\* C14: once a Resize(W, H) has returned, in every state until the next
\* Resize the color and depth planes of both render-target pairs are W x H,
\* the readback array has W*H pixels, the CPU table and the row table are
\* Wpad x Hpad, the column table is Hpad x Wpad, the row partial sums are
\* (Wpad/TILE) x Hpad and the column partial sums (Hpad/TILE) x Wpad.
C14_BufferDimensions ==
    (pc # "Aborted" /\ resizeLog # <<>>) =>
        LET W    == mWindowWidth
            H    == mWindowHeight
            Wpad == CeilToTile(W)
            Hpad == CeilToTile(H)
        IN  /\ bufs["mBackbufferColorTOMS"] = <<W, H>>
            /\ bufs["mBackbufferDepthTOMS"] = <<W, H>>
            /\ bufs["mBackbufferColorTOSS"] = <<W, H>>
            /\ bufs["mBackbufferDepthTOSS"] = <<W, H>>
            /\ bufs["mCPUBackbufferReadback"] = <<W * H, 1>>
            /\ bufs["mCPUSummedAreaTable"] = <<Wpad * Hpad, 1>>
            /\ bufs["mSummedRowsTO"] = <<Wpad, Hpad>>
            /\ bufs["mSummedColsTO"] = <<Hpad, Wpad>>
            /\ bufs["mSummedRowsWGSumsTO"] = <<Wpad \div TILE, Hpad>>
            /\ bufs["mSummedColsWGSumsTO"] = <<Hpad \div TILE, Wpad>>

\* the second frame after Resize(3, 1) is in its SAT stage
C14_Witness ==
    /\ pc = "SATPass" /\ paints = 2
    /\ mWindowWidth = 3 /\ mWindowHeight = 1
    /\ bufs["mSummedColsTO"] = <<2, 4>>
    /\ bufs["mSummedRowsWGSumsTO"] = <<2, 2>>
    /\ bufs["mSummedColsWGSumsTO"] = <<1, 4>>

\* a step of Paint: from UpdateGUI to the return
PaintStep == pc \notin {"Idle", "Aborted"} \/ pc' \notin {"Idle", "Aborted"}

\* what Resize allocates and sizes: the backbuffer and table dimensions, the
\* buffers (changed by the release and allocation calls of resizeLog only)
\* and the buffer the table alias designates
allocations == <<mBackbufferWidth, mBackbufferHeight,
                 mSummedAreaTableWidth, mSummedAreaTableHeight,
                 bufs, resizeLog, mSummedAreaTableTO>>

\* C15: no step of Paint changes the backbuffer dimensions, the table
\* dimensions, any allocated buffer or the buffer the table alias
\* designates, whatever the toggles are and however they changed since the
\* previous frame; a step that changes one of them is a Resize.
C15_PaintKeepsAllocations ==
    /\ [][PaintStep => UNCHANGED allocations]_vars
    /\ [][~(UNCHANGED allocations) =>
             pc = "Idle" /\ pc' \in {"Idle", "Aborted"}
             /\ resizeLog'[1].op = "glFinish"]_vars
    /\ [](\A i \in DOMAIN cmds : cmds[i].op \notin {"delete", "alloc"})

\* the second frame has run the CPU path although the frame before it ran in
\* GPU mode (its ComputeSAT query is the one UpdateGUI read)
C15_Witness ==
    /\ pc = "PresentPass" /\ paints = 2
    /\ mEnableDoF /\ mUseCPUForSAT
    /\ "ComputeSAT" \in gpuRead
    /\ Ops("glTexSubImage2D") # {}
    /\ mSummedAreaTableTO = "mSummedRowsTO"
    /\ bufs["mSummedRowsTO"] = <<4, 2>>

\* the inclusive total of tile k of line y after step 1: the last element of
\* the tile in the scanned table
TileTotal(table, width, k, y) == At(tex[table], width, k * TILE + (TILE - 1), y)

\* the partial-sum buffer of `lines` lines of `tiles` tiles holds, for every
\* tile, the sum of the totals of the tiles strictly before it
IsExclusiveScanOfTotals(wgsums, table, width, tiles, lines) ==
    \A y \in 0..(lines - 1), k \in 0..(tiles - 1) :
        At(tex[wgsums], tiles, k, y)
          = SumRange([e \in 0..(k - 1) |-> TileTotal(table, width, e, y)], 0, k - 1)

configuration == <<mEnableDoF, mUseCPUForSAT, mFocusDepth>>

AfterUpdateGUI == {"UpdateGUI", "UpdatePrograms", "ScenePass", "ResolvePass",
                   "SATPass", "DoFPass", "UIPass", "PresentPass"}

Entered(stage) == \E i \in DOMAIN stages : stages[i] = stage

\* C18: within a Paint the toggles (DoF enabled, SAT mode, focus depth) are
\* written by UpdateGUI only, before the first stage; from ScenePass to the
\* end of PresentPass none of them changes, so the SAT stage and the DoF
\* stage of a frame are taken or skipped together, by the same value.
C18_ConfigurationFixedInFrame ==
    /\ [][configuration' # configuration => pc = "Idle" /\ pc' = "UpdateGUI"]_vars
    /\ [][(pc \in AfterUpdateGUI) => configuration' = configuration]_vars
    /\ [](pc \in {"UIPass", "PresentPass"} =>
            /\ Entered("SATPass") <=> mEnableDoF
            /\ Entered("DoFPass") <=> mEnableDoF)

\* the first frame ends with all three values different from what Init set
\* or, for the DoF toggle, still set, after a full run in CPU mode
C18_Witness ==
    /\ pc = "PresentPass" /\ paints = 1
    /\ mEnableDoF /\ mUseCPUForSAT /\ mFocusDepth = 10
    /\ stages = FullFrame
    /\ Ops("glTexSubImage2D") # {} /\ Ops("glDispatchCompute") = {}

Calls(op) == {i \in DOMAIN resizeLog : resizeLog[i].op = op}

\* C19: in every Resize the wait for the GPU (glFinish) comes before the
\* first release of any render target, framebuffer or SAT buffer, and every
\* buffer is released before its replacement is allocated.
C19_WaitReleaseAllocate ==
    resizeLog # <<>> =>
        /\ Cardinality(Calls("glFinish")) = 1
        /\ \A f \in Calls("glFinish") : \A i \in Calls("delete") \cup Calls("alloc") : f < i
        /\ \A a \in Calls("alloc") :
              \E d \in Calls("delete") : d < a /\ resizeLog[d].buf = resizeLog[a].buf
        /\ \A b \in RenderTargets \cup SATBuffers :
              /\ Cardinality({i \in Calls("delete") : resizeLog[i].buf = b}) <= 1
              /\ Cardinality({i \in Calls("alloc") : resizeLog[i].buf = b})
                   = Cardinality({i \in Calls("delete") : resizeLog[i].buf = b})
        /\ pc = "Idle" =>
              \A b \in RenderTargets \cup SATBuffers :
                  \E i \in Calls("alloc") : resizeLog[i].buf = b

\* a second Resize has returned: all twelve buffers released and recreated
C19_Witness ==
    /\ pc = "Idle" /\ Len(resizeHistory) = 2
    /\ Cardinality(Calls("delete")) = 12 /\ Cardinality(Calls("alloc")) = 12
    /\ resizeLog[1].op = "glFinish" /\ resizeLog[2].op = "delete"
    /\ bufs["mSummedRowsTO"] = <<4, 2>>

\* program, mode uniforms, input and output of a dispatch
Signature(c) == <<c.prog, c.uniforms, c.rd, c.wr>>

\* the ten dispatches the claim lists: rows steps 1-4 and the transpose into
\* the column table, columns steps 1-4 on the column table and the transpose
\* into the table the alias designates
ClaimedDispatchOrder ==
    << <<"mSummedAreaTableUpsweepSP", <<0, 0>>, "mBackbufferColorTOSS", "mSummedRowsTO">>,
       <<"mSummedAreaTableUpsweepSP", <<0, 1>>, "mSummedRowsTO", "mSummedRowsWGSumsTO">>,
       <<"mSummedAreaTableDownsweepSP", <<0>>, "mSummedRowsWGSumsTO", "mSummedRowsWGSumsTO">>,
       <<"mSummedAreaTableDownsweepSP", <<1>>, "mSummedRowsWGSumsTO", "mSummedRowsTO">>,
       <<"mTransposeSummedAreaTableSP", <<>>, "mSummedRowsTO", "mSummedColsTO">>,
       <<"mSummedAreaTableUpsweepSP", <<1, 0>>, "mSummedColsTO", "mSummedColsTO">>,
       <<"mSummedAreaTableUpsweepSP", <<0, 1>>, "mSummedColsTO", "mSummedColsWGSumsTO">>,
       <<"mSummedAreaTableDownsweepSP", <<0>>, "mSummedColsWGSumsTO", "mSummedColsWGSumsTO">>,
       <<"mSummedAreaTableDownsweepSP", <<1>>, "mSummedColsWGSumsTO", "mSummedColsTO">>,
       <<"mTransposeSummedAreaTableSP", <<>>, "mSummedColsTO", mSummedAreaTableTO>> >>

\* C20: a frame that runs the GPU path issues exactly ten dispatches, in the
\* order rows steps 1, 2, 3, 4, transpose (row table to column table),
\* columns steps 1, 2, 3, 4 on the column table, transpose (column table to
\* the table alias); the rows pass reads the resolved color image, the
\* columns pass the accumulated table, and no dispatch of the columns pass
\* comes before the rows transpose.
C20_DispatchOrder ==
    LET issued == SelectSeq(cmds, IsDispatch)
    IN  /\ issued # <<>> =>
              /\ Len(issued) = Len(ClaimedDispatchOrder)
              /\ \A k \in DOMAIN issued : Signature(issued[k]) = ClaimedDispatchOrder[k]
              /\ \A k \in DOMAIN issued :
                    issued[k].pass = 1 =>
                        \E r \in 1..(k - 1) :
                            /\ issued[r].pass = 0
                            /\ issued[r].prog = "mTransposeSummedAreaTableSP"
        /\ (PastSAT /\ mEnableDoF /\ ~mUseCPUForSAT /\ SATProgramsValid) => issued # <<>>

\* the GPU path has run on a 3 x 1 backbuffer
C20_Witness ==
    /\ pc = "SATPass" /\ ~mUseCPUForSAT /\ SATProgramsValid
    /\ mBackbufferWidth = 3 /\ mBackbufferHeight = 1
    /\ Len(SelectSeq(cmds, IsDispatch)) = 10
    /\ Signature(SelectSeq(cmds, IsDispatch)[6])
         = <<"mSummedAreaTableUpsweepSP", <<1, 0>>, "mSummedColsTO", "mSummedColsTO">>

\* the textures the DoF draw binds for sampling the table
DoFSampled ==
    LET calls == DoFCalls(mDepthOfFieldSP, mSummedAreaTableTO)
    IN  {calls[i].rd : i \in {j \in DOMAIN calls : calls[j].op = "glDraw"}}

\* the texture the last command of a SAT path writes: the transpose of the
\* columns pass, or the upload of the host table
LastWritten(path) ==
    IF path = "gpu"
    THEN GPUDispatches[Len(GPUDispatches)].wr
    ELSE LET calls == CPUSATCalls(mSummedAreaTableTO)
         IN  CHOOSE t \in Textures :
                 \E i \in DOMAIN calls : calls[i].op = "glTexSubImage2D" /\ calls[i].wr = t

\* C21: the table alias designates the row table in every state after
\* Resize; once a SAT path has finished (last transpose of the GPU path, or
\* upload of the CPU path) the texture it wrote last is the one the alias
\* designates and the one the DoF draw binds, and it holds the row+column
\* sum of the image at (x, y), rows of table width, for x < W and y < H.
C21_AliasHoldsFinalTable ==
    /\ mSummedAreaTableTO = "mSummedRowsTO"
    /\ DoFSampled = {mSummedAreaTableTO}
    /\ (spc = <<"idle", 0>> /\ ran # <<>>) =>
          /\ LastWritten(ran[Len(ran)]) = mSummedAreaTableTO
          /\ bufs[mSummedAreaTableTO] = <<mSummedAreaTableWidth, mSummedAreaTableHeight>>
          /\ \A t \in DoFSampled : \A p \in InRange :
                At(tex[t], mSummedAreaTableWidth, p[1], p[2])
                  = RectSum(tex["mBackbufferColorTOSS"], mBackbufferWidth, p[1], p[2])

\* the CPU path alone has uploaded the table of a 3 x 1 image with lit
\* pixels at both ends
C21_Witness ==
    /\ ran = <<"cpu">> /\ spc = <<"idle", 0>>
    /\ mBackbufferWidth = 3 /\ mBackbufferHeight = 1
    /\ junk # 0
    /\ At(tex[mSummedAreaTableTO], mSummedAreaTableWidth, 0, 0) = 55
    /\ At(tex[mSummedAreaTableTO], mSummedAreaTableWidth, 2, 0) = 55 + 55

\* the same texture contents, element by element
Texels(t) ==
    [mBackbufferColorTOSS |-> SubSeq(t["mBackbufferColorTOSS"], 1, Len(t["mBackbufferColorTOSS"])),
     mSummedRowsTO        |-> SubSeq(t["mSummedRowsTO"], 1, Len(t["mSummedRowsTO"])),
     mSummedRowsWGSumsTO  |-> SubSeq(t["mSummedRowsWGSumsTO"], 1, Len(t["mSummedRowsWGSumsTO"])),
     mSummedColsTO        |-> SubSeq(t["mSummedColsTO"], 1, Len(t["mSummedColsTO"])),
     mSummedColsWGSumsTO  |-> SubSeq(t["mSummedColsWGSumsTO"], 1, Len(t["mSummedColsWGSumsTO"]))]

\* the textures before the SAT block with every element outside the resolved
\* image set to j
PaddedWith(j) ==
    [t \in Textures |->
        IF t = "mBackbufferColorTOSS" THEN tex[t] ELSE [i \in 1..Len(tex[t]) |-> j]]

\* a second run of the first n dispatches of the GPU path on the same image,
\* every padded element and every read beyond the image giving j
RECURSIVE GPURunWith(_, _)
GPURunWith(j, n) ==
    IF n = 0 THEN PaddedWith(j)
    ELSE LET before == GPURunWith(j, n - 1)
             after  == Exec(GPUDispatches[n], before, bufs, j)
         IN  Texels(after)

\* a second run of the CPU path on the same image, host table and table
\* texture initially filled with j
CPURunWith(j) ==
    Upload([i \in 1..Len(tex[mSummedAreaTableTO]) |-> j], bufs[mSummedAreaTableTO][1],
           SumCols(SumRows([i \in 1..Len(mCPUSummedAreaTable) |-> j],
                           tex["mBackbufferColorTOSS"],
                           mBackbufferWidth, mBackbufferHeight,
                           mSummedAreaTableWidth, 0),
                   mBackbufferWidth, mBackbufferHeight, mSummedAreaTableWidth, 0),
           mBackbufferWidth, mBackbufferHeight, mSummedAreaTableWidth)

SameInRange(a, b) ==
    \A p \in InRange :
        At(a, mSummedAreaTableWidth, p[1], p[2]) = At(b, mSummedAreaTableWidth, p[1], p[2])

\* C22: in both paths the final value of every table entry (x, y) with x < W
\* and y < H does not depend on what the padded elements held or on what a
\* read beyond the image returns: a second run on the same image with any
\* other padding content ends with the same in-range entries.
C22_PaddingIndependence ==
    (spc = <<"idle", 0>> /\ ran # <<>>) =>
        \A j \in JunkValues :
            IF ran[Len(ran)] = "gpu"
            THEN SameInRange(tex[mSummedAreaTableTO],
                             GPURunWith(j, Len(GPUDispatches))[mSummedAreaTableTO])
            ELSE SameInRange(tex[mSummedAreaTableTO], CPURunWith(j))

\* the GPU path has finished on a 3 x 3 image (a padded column and a padded
\* row) whose padding held 9, while the second run's padding holds 0
C22_Witness ==
    /\ spc = <<"idle", 0>> /\ ran = <<"gpu">>
    /\ mBackbufferWidth = 3 /\ mBackbufferHeight = 3
    /\ junk = 9 /\ 0 \in JunkValues
    /\ At(tex[mSummedAreaTableTO], mSummedAreaTableWidth, 2, 2) = 55 + 55
    /\ At(tex[mSummedAreaTableTO], mSummedAreaTableWidth, 3, 3)
         # At(GPURunWith(0, Len(GPUDispatches))[mSummedAreaTableTO],
               mSummedAreaTableWidth, 3, 3)

\* the SAT sub-path the Paint whose timestamps are held took: the CPU branch
\* records the readback pair, the GPU branch the ComputeSAT query pair
PathOfPaint ==
    IF PairRecorded(gpuStamped, "ComputeSAT") THEN "gpu"
    ELSE IF PairRecorded(gpuStamped, "ReadbackBackbuffer") THEN "cpu"
    ELSE "none"

\* the SAT mode a non-empty selection of GPU pairs was made for: the GPU
\* mode skips the readback and upload pairs, the CPU mode the ComputeSAT pair
ModeOfSelection(pairs) == IF "ComputeSAT" \in pairs THEN "gpu" ELSE "cpu"

\* C23: the SAT mode by which UpdateGUI selects the timestamp pairs it reads
\* at the start of a frame is the SAT mode by which the preceding frame's
\* Paint chose its SAT sub-path, whatever the checkboxes are toggled to:
\* inside a frame the sub-path taken is the one of mUseCPUForSAT, and the
\* selection of the next frame's UpdateGUI is the one for that sub-path.
C23_SelectionFollowsPreviousMode ==
    /\ [](Entered("SATPass") => PathOfPaint = (IF mUseCPUForSAT THEN "cpu" ELSE "gpu"))
    /\ [][(pc = "Idle" /\ pc' = "UpdateGUI" /\ gpuRead' # {} /\ PathOfPaint # "none") =>
             /\ ModeOfSelection(gpuRead') = PathOfPaint
             /\ (cpuRead' # {}) = (PathOfPaint = "cpu")]_vars

\* UpdateGUI has selected the CPU-mode pairs, all recorded by the preceding
\* frame's CPU sub-path, in a frame whose checkbox switched to the GPU mode
C23_Witness ==
    /\ pc = "UpdateGUI"
    /\ ~mUseCPUForSAT
    /\ "ReadbackBackbuffer" \in gpuRead /\ "ReadbackBackbuffer" \notin gpuStale
    /\ "ComputeSAT" \in cpuRead /\ "ComputeSAT" \notin cpuStale

\* the commands before command j of the frame that finish a full computation
\* of the table into the texture t: the columns transpose after all ten
\* dispatches of the GPU path, or the upload after the readback and the two
\* summations of the CPU path
TableCompletedBefore(j, t) ==
    \/ /\ Cardinality({i \in Ops("glDispatchCompute") : i < j}) = 10
       /\ \E i \in Ops("glDispatchCompute") :
             i < j /\ cmds[i].pass = 1 /\ cmds[i].step = 5 /\ cmds[i].wr = t
    \/ /\ \E i \in Ops("glTexSubImage2D") : i < j /\ cmds[i].wr = t
       /\ \E r \in Ops("glReadPixels") : \E a \in Ops("sum the rows") :
          \E b \in Ops("sum the columns") : \E u \in Ops("glTexSubImage2D") :
             r < a /\ a < b /\ b < u /\ u < j

\* C24: whenever the DoF pass samples the table in a frame, the table was
\* completely recomputed from that frame's resolved image earlier in the same
\* frame (row and column pass, or CPU compute and upload), for every
\* combination of program validity flags.
C24_DoFSamplesFreshTable ==
    \A j \in Ops("glDraw") :
        cmds[j].prog = "mDepthOfFieldSP" => TableCompletedBefore(j, cmds[j].rd)

\* C25: for every W >= 0 and H >= 0 that Resize accepts, every index the CPU
\* path of a frame reads from the readback array is below W * H and every
\* index it reads or writes in the host table is below Wpad * Hpad, the
\* zero-sized cases W = 0 and H = 0 included.
C25_CPUIndicesInBounds ==
    Ops("sum the rows") # {} =>
        /\ \A i \in CPUReadbackIndices(mBackbufferWidth, mBackbufferHeight) :
              i < bufs["mCPUBackbufferReadback"][1]
        /\ \A i \in CPUTableIndices(mBackbufferWidth, mBackbufferHeight,
                                     mSummedAreaTableWidth) :
              i < bufs["mCPUSummedAreaTable"][1]

====
